---- MODULE Spec2Model ----
(***************************************************************************)
(* Model of the USB serial reader of the master-device UI                  *)
(* (pages/usb_ui.py): the single reader thread that accumulates serial     *)
(* bytes, extracts 61-byte binary encoder frames and newline-terminated    *)
(* status lines, and the UI callbacks that share its state.                *)
(***************************************************************************)
EXTENDS Integers, Sequences, FiniteSets, TLC

(* ---------------------------------------------------------------------- *)
(* Program constants (usb_ui.py:24-28, 40, 370)                            *)
(* ---------------------------------------------------------------------- *)
FRAME_HEADER1 == 170
FRAME_HEADER2 == 187
NUM_JOINTS == 7
ENC_DATA_SIZE == NUM_JOINTS * 2 * 4
FRAME_SIZE == 2 + 1 + ENC_DATA_SIZE + 2
FRAME_LEN == FRAME_SIZE
FRAME_HDR == <<FRAME_HEADER1, FRAME_HEADER2>>
RecentFramesMaxLen == 60
CompleteMessagesCap == 30
CommandHistoryCap == 100
NEWLINE == 10

(* ---------------------------------------------------------------------- *)
(* Python sequence helpers                                                 *)
(* ---------------------------------------------------------------------- *)
\* s[a:b] for 0 <= a <= b <= len(s)
Slice(s, a, b) == SubSeq(s, a + 1, b)

\* s[a:]
SliceFrom(s, a) == SubSeq(s, a + 1, Len(s))

\* s[-n:]  (the whole of s when it is shorter than n)
LastN(s, n) == IF Len(s) <= n THEN s ELSE SubSeq(s, Len(s) - n + 1, Len(s))

\* bytes.find(sub): 0-based index of the first occurrence, -1 when absent
Find(s, sub) ==
    LET hits == { i \in 0..(Len(s) - Len(sub)) : Slice(s, i, i + Len(sub)) = sub }
    IN  IF hits = {} THEN -1 ELSE CHOOSE i \in hits : \A j \in hits : i <= j

\* sub in s
Contains(s, sub) == Find(s, sub) >= 0

RECURSIVE SumBytes(_)
SumBytes(s) == IF s = <<>> THEN 0 ELSE Head(s) + SumBytes(Tail(s))

RECURSIVE Concat(_)
Concat(ss) == IF ss = <<>> THEN <<>> ELSE Head(ss) \o Concat(Tail(ss))

(* ---------------------------------------------------------------------- *)
(* Frame decoding, as the reader thread computes it                        *)
(* ---------------------------------------------------------------------- *)
\* int.from_bytes(frame[-2:], 'little')
CrcRx(frame) == frame[Len(frame) - 1] + 256 * frame[Len(frame)]

\* sum(frame[2:2+1+ENC_DATA_SIZE]) & 0xFFFF
CrcCalcNoSwitch(frame) == SumBytes(Slice(frame, 3, 2 + 1 + ENC_DATA_SIZE)) % 65536
CrcCalc(frame) == SumBytes(Slice(frame, 2, 2 + 1 + ENC_DATA_SIZE)) % 65536

\* one '<I' field of struct.unpack: 4 bytes, least significant first
U32(b) == b[1] + 256 * b[2] + 65536 * b[3] + 16777216 * b[4]

\* struct.unpack('<14I', enc)
Unpack14I(enc) == [k \in 1..(2 * NUM_JOINTS) |-> U32(Slice(enc, 4 * (k - 1), 4 * k))]

\* list(values[:7]) and list(values[7:])
LeftArmSwapped(values) == SubSeq(values, NUM_JOINTS + 1, 2 * NUM_JOINTS)
LeftArm(values) == SubSeq(values, 1, NUM_JOINTS)
RightArm(values) == SubSeq(values, NUM_JOINTS + 1, 2 * NUM_JOINTS)

\* read_encoder_frame (not called by the reader thread): data is the 59 bytes
\* read after a header; the frame is returned unless the checksums differ
ReadEncoderFrameAccepts(data) ==
    data[1 + ENC_DATA_SIZE + 1] + 256 * data[1 + ENC_DATA_SIZE + 2]
        = SumBytes(Slice(data, 0, 1 + ENC_DATA_SIZE)) % 65536

\* the dict read_encoder_frame returns for accepted data (timestamp aside)
ReadEncoderFrameResult(data) ==
    LET values == Unpack14I(Slice(data, 1, 1 + ENC_DATA_SIZE))
    IN  [switch |-> data[1], right_arm |-> RightArm(values), left_arm |-> LeftArm(values)]

(* ---------------------------------------------------------------------- *)
(* Text-line decoding                                                      *)
(* ---------------------------------------------------------------------- *)
\* bytes.decode('utf-8', errors='ignore'): a well-formed UTF-8 sequence
\* (1 to 4 bytes, no overlong form, no surrogate, at most U+10FFFF) becomes
\* its code point; a byte that starts no well-formed sequence is dropped and
\* decoding resumes at the next byte.
RECURSIVE Utf8DecodeIgnore(_)
Utf8DecodeIgnore(bs) ==
    IF bs = <<>> THEN <<>>
    ELSE LET at(k) == IF k <= Len(bs) THEN bs[k] ELSE 0
             b0 == at(1)
             b1 == at(2)
             b2 == at(3)
             b3 == at(4)
             cont(b) == b \in 128..191
             width == CASE b0 < 128 -> 1
                        [] b0 \in 194..223 /\ cont(b1) -> 2
                        [] b0 = 224 /\ b1 \in 160..191 /\ cont(b2) -> 3
                        [] b0 \in (225..236) \cup {238, 239} /\ cont(b1) /\ cont(b2) -> 3
                        [] b0 = 237 /\ b1 \in 128..159 /\ cont(b2) -> 3
                        [] b0 = 240 /\ b1 \in 144..191 /\ cont(b2) /\ cont(b3) -> 4
                        [] b0 \in 241..243 /\ cont(b1) /\ cont(b2) /\ cont(b3) -> 4
                        [] b0 = 244 /\ b1 \in 128..143 /\ cont(b2) /\ cont(b3) -> 4
                        [] OTHER -> 0
             point == CASE width = 2 -> (b0 - 192) * 64 + (b1 - 128)
                        [] width = 3 -> (b0 - 224) * 4096 + (b1 - 128) * 64 + (b2 - 128)
                        [] width = 4 -> (b0 - 240) * 262144 + (b1 - 128) * 4096
                                        + (b2 - 128) * 64 + (b3 - 128)
                        [] OTHER -> b0
         IN  IF width = 0
             THEN Utf8DecodeIgnore(Tail(bs))
             ELSE <<point>> \o Utf8DecodeIgnore(SubSeq(bs, width + 1, Len(bs)))

\* characters str.strip() removes: the code points with str.isspace()
IsSpace(c) ==
    c \in {9, 10, 11, 12, 13, 28, 29, 30, 31, 32, 133, 160, 5760, 8232, 8233, 8239, 8287, 12288}
          \cup (8192..8202)

RECURSIVE LStrip(_)
LStrip(s) == IF s # <<>> /\ IsSpace(Head(s)) THEN LStrip(Tail(s)) ELSE s

RECURSIVE RStrip(_)
RStrip(s) == IF s # <<>> /\ IsSpace(s[Len(s)]) THEN RStrip(SubSeq(s, 1, Len(s) - 1)) ELSE s

Strip(s) == RStrip(LStrip(s))

KW_COMPLETE == <<67, 79, 77, 80, 76, 69, 84, 69>>
KW_START == <<83, 84, 65, 82, 84>>
KW_MOVING == <<77, 79, 86, 73, 78, 71>>
KW_REACHED == <<82, 69, 65, 67, 72, 69, 68>>
KW_ERROR == <<69, 82, 82, 79, 82>>
KW_TIMEOUT == <<84, 73, 77, 69, 79, 85, 84>>
KW_BLOCKED == <<66, 76, 79, 67, 75, 69, 68>>
StatusKeywords ==
    {KW_COMPLETE, KW_START, KW_MOVING, KW_REACHED, KW_ERROR, KW_TIMEOUT, KW_BLOCKED}

\* any(k in line for k in [...])
HasKeyword(text) == \E k \in StatusKeywords : Contains(text, k)

(* ---------------------------------------------------------------------- *)
(* The device side of the serial link: what the firmware transmits         *)
(* (wire format: AA BB, switch byte, 14 x uint32 LE, uint16 LE byte sum)   *)
(* ---------------------------------------------------------------------- *)
Pack32(v) == <<v % 256, (v \div 256) % 256, (v \div 65536) % 256, (v \div 16777216) % 256>>

PackAll(vals) == Concat([k \in 1..Len(vals) |-> Pack32(vals[k])])

MakeFrame(sw, vals) ==
    LET body == <<sw>> \o PackAll(vals)
        crc  == SumBytes(body) % 65536
    IN  FRAME_HDR \o body \o <<crc % 256, crc \div 256>>

\* the same frame with its last checksum byte damaged in transit
Corrupt(frame) == [frame EXCEPT ![Len(frame)] = (@ + 1) % 256]

\* encoder readings used as test payloads: small values, multi-byte values,
\* a value whose bytes contain '\n' (0x0A), a value whose bytes are AA BB
PayloadA == <<1, 2, 3, 4, 5, 6, 7, 8, 9, 11, 12, 13, 14, 15>>
PayloadB == <<258, 65536, 16909060, 2147483647, 21, 22, 23, 24, 25, 26, 27, 28, 29, 513>>
PayloadC == <<31, 32, 33, 34, 35, 36, 37, 38, 39, 40, 41, 42, 43, 44>>
PayloadNL == <<51, 10, 53, 54, 55, 56, 57, 58, 59, 60, 61, 62, 2570, 64>>
PayloadHdr == <<71, 72, 48042, 74, 75, 76, 77, 78, 79, 80, 81, 82, 83, 84>>
Payloads == {PayloadA, PayloadB, PayloadC, PayloadNL, PayloadHdr}

FrameA == MakeFrame(1, PayloadA)
FrameB == MakeFrame(0, PayloadB)
FrameC == MakeFrame(2, PayloadC)
FrameNL == MakeFrame(3, PayloadNL)
FrameHdr == MakeFrame(4, PayloadHdr)

\* status text the firmware prints: "MOVING\n", "HOME COMPLETE\n", "ok\n"
TextMoving == KW_MOVING \o <<NEWLINE>>
TextHomeComplete == <<72, 79, 77, 69, 32>> \o KW_COMPLETE \o <<NEWLINE>>
TextOk == <<111, 107, NEWLINE>>

StreamThree == FrameA \o FrameB \o FrameC
StreamBadGood == Corrupt(FrameA) \o FrameB
StreamBadGoodNL == Corrupt(FrameC) \o FrameNL
StreamFalseHeader == FRAME_HDR \o FrameA
StreamTextThenFrame == TextMoving \o FrameA
StreamFrameThenText == FrameB \o TextHomeComplete \o TextOk
StreamNewlineFrame == FrameNL \o FrameA
StreamHeaderInPayload == FrameHdr \o TextMoving \o FrameC

\* what the device may transmit in one run: the scenarios above and every
\* sequence of at most MaxSegments segments
MaxSegments == 2
Segments == { FrameA, FrameNL, Corrupt(FrameA), FRAME_HDR, TextMoving }
SegmentSeqs == UNION { [1..k -> Segments] : k \in 1..MaxSegments }
Streams ==
    { StreamThree, StreamBadGood, StreamBadGoodNL, StreamFalseHeader,
      StreamTextThenFrame, StreamFrameThenText, StreamNewlineFrame,
      StreamHeaderInPayload }
    \cup { Concat(q) : q \in SegmentSeqs }

(* ---------------------------------------------------------------------- *)
(* State                                                                   *)
(* ---------------------------------------------------------------------- *)
VARIABLES
    stream,             \* every byte the device transmits in this run
    rd,                 \* how many of them shared_ser.read() has returned
    buf,                \* reader thread: accumulation buffer (bytearray)
    pc,                 \* reader thread: position in serial_communication_thread
    left_arm,           \* reader thread local
    right_arm,          \* reader thread local
    ts,                 \* reader thread local
    line,               \* reader thread local: the display line or text line built last
    latest_enc_L,       \* module global, written under lock
    latest_enc_R,       \* module global, written under lock
    recorded_encoders,  \* module global: the recording buffer
    recording_active,   \* module global
    stats,              \* module global, under stats_lock
    recent_frames,      \* deque(maxlen=60), under stats_lock
    complete_messages,  \* status-message log, under complete_messages_lock
    command_history,    \* log_command() history
    lock,               \* holder of threading.Lock `lock`: "free", "reader", "ui"
    clock,              \* time.time(), in ticks
    save_btn_text,      \* children of save-btn as the browser holds it
    ui_view,            \* what update_encoder_display_with_live_data rendered last
    display,            \* update_encoder_display_with_live_data: position and its local `lines`
    clearing,           \* handle_all_buttons, clear-btn: the callback is in front of `with lock`
    n_intervals,        \* dcc.Interval counter of the page
    keyboard_active,    \* module global
    serial_thread_active, \* module global: the reader loops' running flag
    listener,           \* start_keyboard_listener threads: position of each
    serial_thr,         \* serial_communication_thread threads: position of each
    shared_ser,         \* module global: the serial handle
    device_active,      \* module global: Device ON/OFF
    device_state,       \* dcc.Store "device-state" as the browser holds it
    overlay,            \* handle_selective_overlay_control: its reply on the way to the browser
    keyboard_state,     \* module global: the keys '1'..'6' as on_key_press / on_key_release leave them
    key_physically_pressed,\* module global: the keys held down
    on_key,             \* on_key_press on the listener thread: position of the call
    export,             \* handle_all_buttons, save-as-btn: position of the callback
    csv_file,           \* the CSV file being written: header, then one row per sample
    cmd,                \* send_command_safely: position and command of the caller
    ser_out,            \* every line written to the serial handle, in order
    impl,               \* the queue-based stream worker followed: its class
    is_running,         \* is_running / stream_worker_running
    data_queue,         \* data_queue / stream_queue: queue.Queue(maxsize)
    callbacks,          \* callbacks / stream_callbacks, in registration order
    hstats,             \* GRPCStreamHandler.stats counters
    hworker,            \* consumer threads: position, sample in hand, callbacks left,
                        \* and the callbacks that raised on that sample
    hstop,              \* the caller of stop() / cleanup(): its position
    next_seq,           \* sequence number the producer gives its next sample
    accepted,           \* samples for which add_sample returned True, in order
    add_ret,            \* what the last add_sample call returned
    producer,           \* the add_sample call in progress: where it is and the sample it carries
    delivered,          \* callback invocations, in the order they began
    running,            \* BackgroundWorker.running
    task_queue,         \* BackgroundWorker.task_queue
    result_queue,       \* BackgroundWorker.result_queue
    bworker,            \* BackgroundWorker threads: position and task in hand
    bstop,              \* the caller of BackgroundWorker.stop(): its position
    grpc_client_available, \* GRPC_CLIENT_AVAILABLE of wifi_ui_1
    gain_values,        \* grpc_data_manager.gain_values
    rpc_log,            \* RPC calls made by the client functions, with their outcome
    submitted,          \* task ids returned by submit_task, in order
    polled,             \* TaskResults handed to the UI poller, in order
    dm_lock,            \* GRPCDataManager.lock (threading.Lock): the thread inside, or 0
    robot_state,        \* GRPCDataManager.robot_state: connected, recording
    is_recording,       \* GRPCDataManager.is_recording
    encoder_data,       \* GRPCDataManager.encoder_data
    grpc_logs,          \* GRPCDataManager.grpc_logs: the entry types, in order
    pose_data,          \* GRPCDataManager.pose_data: the angles saved, in order
    callers,            \* threads calling into the data manager: their call stacks
    invoked             \* the calls made into the data manager, in order

vars ==
    << stream, rd, buf, pc, left_arm, right_arm, ts, line, latest_enc_L, latest_enc_R,
       recorded_encoders, recording_active, stats, recent_frames,
       complete_messages, command_history, lock, clock, save_btn_text, ui_view, display, clearing,
       n_intervals, keyboard_active, serial_thread_active, listener, serial_thr,
       shared_ser, device_active, device_state, overlay, keyboard_state, key_physically_pressed, on_key, export, csv_file, cmd, ser_out,
       impl, is_running, data_queue, callbacks, hstats, hworker, hstop, next_seq,
       accepted, add_ret, producer, delivered,
       running, task_queue, result_queue, bworker, bstop, grpc_client_available,
       gain_values, rpc_log, submitted, polled,
       dm_lock, robot_state, is_recording, encoder_data, grpc_logs, pose_data,
       callers, invoked >>

readerLocals == << buf, pc, left_arm, right_arm, ts, line >>
published == << latest_enc_L, latest_enc_R, recorded_encoders, stats, recent_frames >>
textLog == << complete_messages, command_history >>
uiVars == << recording_active, save_btn_text, ui_view, display, clearing >>
startVars ==
    << n_intervals, keyboard_active, serial_thread_active, listener, serial_thr, shared_ser >>
ioVars == << device_active, device_state, overlay, keyboard_state, key_physically_pressed, on_key, export, csv_file, cmd, ser_out >>
streamVars ==
    << impl, is_running, data_queue, callbacks, hstats, hworker, hstop, next_seq,
       accepted, add_ret, producer, delivered >>
workerVars ==
    << running, task_queue, result_queue, bworker, bstop, grpc_client_available,
       gain_values, rpc_log, submitted, polled >>
managerVars ==
    << dm_lock, robot_state, is_recording, encoder_data, grpc_logs, pose_data,
       callers, invoked >>
extVars == << ioVars, streamVars, workerVars, managerVars >>
extRest ==
    << device_state, overlay, keyboard_state, key_physically_pressed, on_key, export, csv_file, cmd, ser_out, streamVars, workerVars, managerVars >>
dataVars ==
    << stream, rd, buf, pc, left_arm, right_arm, ts, line, latest_enc_L, latest_enc_R,
       recorded_encoders, recording_active, stats, recent_frames,
       complete_messages, command_history, lock, clock, save_btn_text, ui_view, display, clearing >>

\* `n_intervals <= 3`: the ticks on which the auto-start check is made
AutoStartTicks == 3
\* one listener thread (and its serial thread) can be spawned per such tick
ThreadIds == 1..AutoStartTicks
\* pynput imported successfully
KEYBOARD_AVAILABLE == TRUE

Zeros == [k \in 1..NUM_JOINTS |-> 0]

\* bytes still waiting in the serial driver (shared_ser.in_waiting of them)
Wire == SliceFrom(stream, rd)

\* the save-as-btn branch at rest: nothing reported, nothing entered
ExportIdle == [pc |-> "idle", status |-> "", before |-> <<>>]

\* the keys the listener handles, in the order send_keyboard_state reports them
KeyOrder == << "1", "2", "3", "4", "5", "6" >>
Keys == { KeyOrder[k] : k \in 1..Len(KeyOrder) }

\* the keys on_key_press toggles: '1' right arm, '2' recording, '4' left arm
ToggleKeys == { "1", "2", "4" }

\* the keys that are on while they are held down; '5' clears the recording
PushKeys == { "3", "5", "6" }

\* the command and export paths at rest
InitIo ==
    /\ device_active = TRUE
    /\ device_state = [active |-> TRUE]
    /\ overlay = [pc |-> "idle", data |-> [active |-> TRUE]]
    /\ keyboard_state = [key \in Keys |-> FALSE]
    /\ key_physically_pressed = [key \in Keys |-> FALSE]
    /\ on_key = [pc |-> "idle"]
    /\ export = ExportIdle
    /\ csv_file = <<>>
    /\ cmd = [pc |-> "idle", command |-> ""]
    /\ ser_out = <<>>

\* consumer threads one stream worker object can have been given
MaxStarts == 2
WorkerIds == 1..MaxStarts

\* the sentinel stop() puts on the queue (None)
NONE == 0

\* a consumer thread that was never started
IdleConsumer == [pc |-> "none", sample |-> NONE, todo |-> <<>>, raised |-> {}]

\* no stream worker object constructed
InitStreamIdle ==
    /\ impl = "none"
    /\ is_running = FALSE
    /\ data_queue = <<>>
    /\ callbacks = <<>>
    /\ hstats = [total_samples |-> 0, processed_samples |-> 0, dropped_samples |-> 0]
    /\ hworker = [w \in WorkerIds |-> IdleConsumer]
    /\ hstop = [pc |-> "idle", w |-> 0]
    /\ next_seq = 1
    /\ accepted = <<>>
    /\ add_ret = [sample |-> NONE, ret |-> FALSE]
    /\ producer = [pc |-> "idle", sample |-> NONE]
    /\ delivered = <<>>

\* a BackgroundWorker thread that was never started
IdleWorker == [pc |-> "none", task |-> <<>>, reply |-> <<>>, result |-> <<>>]

\* no BackgroundWorker constructed
InitWorkerIdle ==
    /\ running = FALSE
    /\ task_queue = <<>>
    /\ result_queue = <<>>
    /\ bworker = [w \in WorkerIds |-> IdleWorker]
    /\ bstop = [pc |-> "idle", w |-> 0]
    /\ grpc_client_available = TRUE
    /\ gain_values = [shoulder_gain |-> 60, joint_gain |-> 70]
    /\ rpc_log = <<>>
    /\ submitted = <<>>
    /\ polled = <<>>

\* threads that call into the data manager (gRPC server handlers, callbacks)
ManagerThreads == 1..2

\* GRPCDataManager.__init__: the lock free, nothing stored, nobody inside
InitDataManager ==
    /\ dm_lock = 0
    /\ robot_state = [connected |-> FALSE, recording |-> [active |-> FALSE]]
    /\ is_recording = FALSE
    /\ encoder_data = <<>>
    /\ grpc_logs = <<>>
    /\ pose_data = <<>>
    /\ callers = [t \in ManagerThreads |-> <<>>]
    /\ invoked = <<>>

InitExt == InitIo /\ InitStreamIdle /\ InitWorkerIdle /\ InitDataManager

InitReader ==
    /\ stream \in Streams
    /\ rd = 0
    /\ buf = <<>>
    /\ pc = "read"
    /\ left_arm = <<>>
    /\ right_arm = <<>>
    /\ ts = 0
    /\ line = <<>>
    /\ latest_enc_L = Zeros
    /\ latest_enc_R = Zeros
    /\ recorded_encoders = <<>>
    /\ recording_active = FALSE
    /\ stats = [last_ts |-> 0]
    /\ recent_frames = <<>>
    /\ complete_messages = <<>>
    /\ command_history = <<>>
    /\ lock = "free"
    /\ clock = 1
    /\ save_btn_text = "Recording"
    /\ ui_view = <<>>
    /\ display = [pc |-> "idle", lines |-> <<>>]
    /\ clearing = FALSE
    /\ n_intervals = AutoStartTicks + 1
    /\ keyboard_active = TRUE
    /\ serial_thread_active = TRUE
    /\ listener = [t \in ThreadIds |-> IF t = 1 THEN "listening" ELSE "none"]
    /\ serial_thr = [t \in ThreadIds |-> IF t = 1 THEN "running" ELSE "none"]
    /\ shared_ser = [owner |-> 1, is_open |-> TRUE]
    /\ InitExt

(* ---------------------------------------------------------------------- *)
(* serial_communication_thread: one step per loop position                 *)
(* ---------------------------------------------------------------------- *)
\* log_command(command, success, response): append, keep the last 100
LogCommand(history, command, success, response) ==
    LastN(Append(history, [command |-> command, success |-> success, response |-> response]),
          CommandHistoryCap)

\* n = in_waiting; chunk = read(n); buf.extend(chunk)
ReadChunk(n) ==
    /\ pc = "read"
    /\ serial_thread_active
    /\ n \in 1..Len(Wire)
    /\ buf' = buf \o Slice(Wire, 0, n)
    /\ rd' = rd + n
    /\ pc' = "parse"
    /\ UNCHANGED << stream, left_arm, right_arm, ts, line, published, textLog, lock, clock, uiVars, startVars, extVars >>

\* check_for_complete_messages, called by another thread on the open handle
\* with bytes waiting: shared_ser.read(shared_ser.in_waiting) takes them off
\* the port; the lines with COMPLETE go into a local list that is dropped
CheckForCompleteMessages(n) ==
    /\ shared_ser.is_open
    /\ n \in 1..Len(Wire)
    /\ rd' = rd + n
    /\ UNCHANGED << stream, readerLocals, published, textLog, lock, clock, uiVars, startVars, extVars >>

\* i = buf.find(FRAME_HDR)
HdrIndex(b) == Find(b, FRAME_HDR)

\* a complete 61-byte window starts at the first header
HasWindow(b) == HdrIndex(b) >= 0 /\ Len(b) - HdrIndex(b) >= FRAME_LEN

\* frame = bytes(buf[i:i+FRAME_LEN])
Window(b) == Slice(b, HdrIndex(b), HdrIndex(b) + FRAME_LEN)

\* del buf[:i+FRAME_LEN]
AfterWindow(b) == SliceFrom(b, HdrIndex(b) + FRAME_LEN)

\* inner loop 1, `break`: no header, or the frame is incomplete
ParseBreak ==
    /\ pc = "parse"
    /\ ~HasWindow(buf)
    /\ pc' = "text"
    /\ UNCHANGED << stream, rd, buf, left_arm, right_arm, ts, line, published, textLog, lock, clock, uiVars, startVars, extVars >>

\* inner loop 1, `continue`: the window is consumed, its checksum differs
ParseBadCrc ==
    /\ pc = "parse"
    /\ HasWindow(buf)
    /\ CrcRx(Window(buf)) # CrcCalc(Window(buf))
    /\ buf' = AfterWindow(buf)
    /\ UNCHANGED << stream, rd, pc, left_arm, right_arm, ts, line, published, textLog, lock, clock, uiVars, startVars, extVars >>

\* inner loop 1: the window is consumed, unpacked and split; ts = time.time()
ParseGoodFrame ==
    /\ pc = "parse"
    /\ HasWindow(buf)
    /\ CrcRx(Window(buf)) = CrcCalc(Window(buf))
    /\ LET values == Unpack14I(Slice(Window(buf), 3, 3 + ENC_DATA_SIZE))
       IN  /\ left_arm' = LeftArm(values)
           /\ right_arm' = RightArm(values)
    /\ buf' = AfterWindow(buf)
    /\ ts' = clock
    /\ clock' = clock + 1
    /\ pc' = "lock"
    /\ UNCHANGED << stream, rd, line, published, textLog, lock, uiVars, startVars, extVars >>

\* with lock: latest_enc_L = left_arm
SetLatestLNoLock ==
    /\ pc = "lock"
    /\ latest_enc_L' = left_arm
    /\ pc' = "setR"
    /\ UNCHANGED << stream, rd, buf, left_arm, right_arm, ts, line, latest_enc_R,
                    recorded_encoders, stats, recent_frames, textLog, lock, clock, uiVars,
                    startVars, extVars >>
SetLatestL ==
    /\ pc = "lock"
    /\ lock = "free"
    /\ lock' = "reader"
    /\ latest_enc_L' = left_arm
    /\ pc' = "setR"
    /\ UNCHANGED << stream, rd, buf, left_arm, right_arm, ts, line, latest_enc_R,
                    recorded_encoders, stats, recent_frames, textLog, clock, uiVars, startVars, extVars >>

\* latest_enc_R = right_arm
SetLatestR ==
    /\ pc = "setR"
    /\ latest_enc_R' = right_arm
    /\ pc' = "rec"
    /\ UNCHANGED << stream, rd, buf, left_arm, right_arm, ts, line, latest_enc_L,
                    recorded_encoders, stats, recent_frames, textLog, lock, clock, uiVars, startVars, extVars >>

\* the dict appended to recorded_encoders
Sample(t, l, r) == [timestamp |-> t, left_arm |-> l, right_arm |-> r]

\* if recording_active: recorded_encoders.append({...})
Recorded(rec, active, sample) == IF active THEN Append(rec, sample) ELSE rec

\* the gated append; leaving the `with lock:` block releases the lock
RecordSample ==
    /\ pc = "rec"
    /\ recorded_encoders' =
          Recorded(recorded_encoders, recording_active, Sample(ts, left_arm, right_arm))
    /\ lock' = "free"
    /\ pc' = "stats"
    /\ UNCHANGED << stream, rd, buf, left_arm, right_arm, ts, line, latest_enc_L, latest_enc_R,
                    stats, recent_frames, textLog, clock, uiVars, startVars, extVars >>

\* with stats_lock: ... stats['last_ts'] = ts   (the float EMA/FPS fields are
\* functions of the last_ts history and are not carried)
UpdateStats ==
    /\ pc = "stats"
    /\ stats' = [stats EXCEPT !.last_ts = ts]
    /\ pc' = "recent"
    /\ UNCHANGED << stream, rd, buf, left_arm, right_arm, ts, line, latest_enc_L, latest_enc_R,
                    recorded_encoders, recent_frames, textLog, lock, clock, uiVars, startVars, extVars >>

\* the display line '[ts]\nRight : [...]\nLeft  : [...]\n', kept as its fields
FrameLine(t, l, r) == [ts |-> t, right |-> r, left |-> l]

\* line = '[ts]...'; with stats_lock: recent_frames.append(line)   (deque, maxlen=60)
AppendRecent ==
    /\ pc = "recent"
    /\ line' = FrameLine(ts, left_arm, right_arm)
    /\ recent_frames' = LastN(Append(recent_frames, line'), RecentFramesMaxLen)
    /\ pc' = "parse"
    /\ UNCHANGED << stream, rd, buf, left_arm, right_arm, ts, latest_enc_L, latest_enc_R,
                    recorded_encoders, stats, textLog, lock, clock, uiVars, startVars, extVars >>

\* nl = buf.find(b'\n')
NlIndex(b) == Find(b, <<NEWLINE>>)

\* line = buf[:nl+1].decode('utf-8', errors='ignore').strip()
TextLine(b) == Strip(Utf8DecodeIgnore(Slice(b, 0, NlIndex(b) + 1)))

\* inner loop 2, `break`: no newline left; time.sleep(0.001), next outer pass
TextBreak ==
    /\ pc = "text"
    /\ NlIndex(buf) < 0
    /\ pc' = "read"
    /\ UNCHANGED << stream, rd, buf, left_arm, right_arm, ts, line, published, textLog, lock, clock, uiVars, startVars, extVars >>

\* inner loop 2: one line is cut off the front of buf; a keyword line is
\* appended to complete_messages inside `with complete_messages_lock`
TextStepKeepsOldest ==
    /\ pc = "text"
    /\ NlIndex(buf) >= 0
    /\ buf' = SliceFrom(buf, NlIndex(buf) + 1)
    /\ line' = TextLine(buf)
    /\ IF line' # <<>> /\ HasKeyword(line')
       THEN /\ complete_messages' =
                  SubSeq(Append(complete_messages, [message |-> line', timestamp |-> clock]),
                         1, IF Len(complete_messages) < CompleteMessagesCap
                            THEN Len(complete_messages) + 1 ELSE CompleteMessagesCap)
            /\ clock' = clock + 1
            /\ pc' = "log"
       ELSE UNCHANGED << complete_messages, clock, pc >>
    /\ UNCHANGED << stream, rd, left_arm, right_arm, ts, published, command_history, lock,
                    uiVars, startVars, extVars >>
TextStep ==
    /\ pc = "text"
    /\ NlIndex(buf) >= 0
    /\ buf' = SliceFrom(buf, NlIndex(buf) + 1)
    /\ line' = TextLine(buf)
    /\ IF line' # <<>> /\ HasKeyword(line')
       THEN /\ complete_messages' =
                  LastN(Append(complete_messages, [message |-> line', timestamp |-> clock]),
                        CompleteMessagesCap)
            /\ clock' = clock + 1
            /\ pc' = "log"
       ELSE UNCHANGED << complete_messages, clock, pc >>
    /\ UNCHANGED << stream, rd, left_arm, right_arm, ts, published, command_history, lock,
                    uiVars, startVars, extVars >>

\* inner loop 2, after the lock is released: log_command("RECEIVED", True, line)
TextLog ==
    /\ pc = "log"
    /\ command_history' = LogCommand(command_history, "RECEIVED", TRUE, line)
    /\ pc' = "text"
    /\ UNCHANGED << stream, rd, buf, left_arm, right_arm, ts, line, published, complete_messages,
                    lock, clock, uiVars, startVars, extVars >>

\* in_waiting or read() raises (the device was unplugged); the `except
\* Exception` of the iteration catches it
ReadRaises ==
    /\ pc = "read"
    /\ serial_thread_active
    /\ pc' = "caught"
    /\ UNCHANGED << stream, rd, buf, left_arm, right_arm, ts, line, published, textLog, lock,
                    clock, uiVars, startVars, extVars >>

\* time.sleep(0.01) in the handler is over; next pass of the outer loop
ReadCaught ==
    /\ pc = "caught"
    /\ pc' = "read"
    /\ UNCHANGED << stream, rd, buf, left_arm, right_arm, ts, line, published, textLog, lock,
                    clock, uiVars, startVars, extVars >>

ReaderStep ==
    \/ \E n \in 1..Len(stream) : ReadChunk(n)
    \/ ParseBreak
    \/ ParseBadCrc
    \/ ParseGoodFrame
    \/ SetLatestL
    \/ SetLatestR
    \/ RecordSample
    \/ UpdateStats
    \/ AppendRecent
    \/ TextBreak
    \/ TextStep
    \/ TextLog
    \/ ReadRaises
    \/ ReadCaught

(* ---------------------------------------------------------------------- *)
(* UI callbacks that share the reader's state                              *)
(* ---------------------------------------------------------------------- *)
\* if device_state and 'active' in device_state: device_active = device_state['active']
SyncDevice ==
    IF "active" \in DOMAIN device_state
    THEN device_state.active ELSE device_active

\* handle_all_buttons, trigger save-btn with a port present: the device state
\* is synchronised, then the button text the browser sends back decides
\* between start and stop
HandleSaveBtn ==
    /\ device_active' = SyncDevice
    /\ IF save_btn_text = "Recording"
       THEN /\ recording_active' = TRUE
            /\ save_btn_text' = "Stop"
       ELSE /\ recording_active' = FALSE
            /\ save_btn_text' = "Recording"
    /\ UNCHANGED << stream, rd, readerLocals, published, textLog, lock, clock, ui_view, display,
                    clearing, startVars, extRest >>

\* handle_all_buttons, trigger clear-btn: the device state is synchronised and
\* the callback arrives at `with lock`
HandleClearEnter ==
    /\ ~clearing
    /\ clearing' = TRUE
    /\ device_active' = SyncDevice
    /\ UNCHANGED << stream, rd, readerLocals, published, textLog, lock, clock,
                    recording_active, save_btn_text, ui_view, display, startVars, extRest >>

\* handle_all_buttons, trigger clear-btn: with lock: recorded_encoders.clear()
HandleClearBtn ==
    /\ clearing
    /\ lock = "free"
    /\ recorded_encoders' = <<>>
    /\ clearing' = FALSE
    /\ UNCHANGED << stream, rd, readerLocals, latest_enc_L, latest_enc_R, stats,
                    recent_frames, textLog, lock, clock, recording_active, save_btn_text,
                    ui_view, display, startVars, extVars >>

\* one rendered entry '[ts]\nRight : [...]\nLeft  : [...]\n', kept as its fields
EntryLine(entry) == [ts |-> entry.timestamp, right |-> entry.right_arm, left |-> entry.left_arm]

\* the line the display puts in front of its text while the device is off
DeviceOffHeader == [ts |-> 0, right |-> <<>>, left |-> <<>>]

\* update_encoder_display_with_live_data: the device state is synchronised
\* (device_active = keyboard_active and serial_thread_active); the callback is
\* then at `with stats_lock:`
DisplaySyncDevice ==
    /\ display.pc = "idle"
    /\ device_active' = SyncDevice
    /\ display' = [display EXCEPT !.pc = "stats_lock"]
    /\ UNCHANGED << stream, rd, readerLocals, published, textLog, lock, clock,
                    recording_active, save_btn_text, ui_view, clearing, startVars, extRest >>

\* with stats_lock: lines = list(recent_frames)
DisplaySnapshot ==
    /\ display.pc = "stats_lock"
    /\ display' = [pc |-> "snapshot", lines |-> recent_frames]
    /\ UNCHANGED << stream, rd, readerLocals, published, textLog, lock, clock,
                    recording_active, save_btn_text, ui_view, clearing, startVars, extVars >>

\* update_encoder_display_with_live_data, after the lock block: while
\* recording the last 12 lines of the copy are shown, or the header and the
\* last 10 while the device is off; otherwise the recorded list is next
UpdateEncoderDisplay ==
    /\ display.pc = "snapshot"
    /\ IF recording_active
       THEN /\ ui_view' = IF display.lines = <<>> THEN <<>>
                          ELSE IF ~device_active
                               THEN <<DeviceOffHeader>> \o LastN(display.lines, 10)
                               ELSE LastN(display.lines, 12)
            /\ display' = [pc |-> "idle", lines |-> <<>>]
       ELSE /\ display' = [display EXCEPT !.pc = "recorded"]
            /\ UNCHANGED ui_view
    /\ UNCHANGED << stream, rd, readerLocals, published, textLog, lock, clock,
                    recording_active, save_btn_text, clearing, startVars, extVars >>

\* update_encoder_display_with_live_data, not recording: the last 10 recorded
\* samples, behind the header while the device is off; the recorded list is
\* read without taking `lock`
DisplayRecorded ==
    /\ display.pc = "recorded"
    /\ ui_view' =
          IF recorded_encoders = <<>> THEN <<>>
          ELSE LET recent_recorded == LastN(recorded_encoders, 10)
               IN  (IF ~device_active THEN <<DeviceOffHeader>> ELSE <<>>)
                       \o [k \in 1..Len(recent_recorded) |-> EntryLine(recent_recorded[k])]
    /\ display' = [pc |-> "idle", lines |-> <<>>]
    /\ UNCHANGED << stream, rd, readerLocals, published, textLog, lock, clock,
                    recording_active, save_btn_text, clearing, startVars, extVars >>

UiStep ==
    \/ HandleSaveBtn
    \/ HandleClearEnter
    \/ HandleClearBtn

\* the size in_waiting reports to check_for_complete_messages: a frame
CheckSizes == { FRAME_LEN }

NextReader ==
    \/ ReaderStep
    \/ UiStep
    \/ \E n \in CheckSizes : CheckForCompleteMessages(n)

SpecReader == InitReader /\ [][NextReader]_vars

(* ---------------------------------------------------------------------- *)
(* Start-up: the interval callback, the listener threads it spawns and the *)
(* serial threads those spawn                                              *)
(* ---------------------------------------------------------------------- *)
\* interval ticks followed per page load
MaxIntervals == 5

InitStart ==
    /\ stream = <<>>
    /\ rd = 0
    /\ buf = <<>>
    /\ pc = "read"
    /\ left_arm = <<>>
    /\ right_arm = <<>>
    /\ ts = 0
    /\ line = <<>>
    /\ latest_enc_L = Zeros
    /\ latest_enc_R = Zeros
    /\ recorded_encoders = <<>>
    /\ recording_active = FALSE
    /\ stats = [last_ts |-> 0]
    /\ recent_frames = <<>>
    /\ complete_messages = <<>>
    /\ command_history = <<>>
    /\ lock = "free"
    /\ clock = 1
    /\ save_btn_text = "Recording"
    /\ ui_view = <<>>
    /\ display = [pc |-> "idle", lines |-> <<>>]
    /\ clearing = FALSE
    /\ n_intervals = 0
    /\ keyboard_active = FALSE
    /\ serial_thread_active = FALSE
    /\ listener = [t \in ThreadIds |-> "none"]
    /\ serial_thr = [t \in ThreadIds |-> "none"]
    /\ shared_ser = [owner |-> 0, is_open |-> FALSE]
    /\ InitExt

\* the interval fires; auto_start_keyboard_and_update_status runs with the new
\* count and the stores' content: it synchronises the device state and may
\* spawn a listener thread
IntervalTick(port_data) ==
    /\ n_intervals < MaxIntervals
    /\ n_intervals' = n_intervals + 1
    /\ device_active' = SyncDevice
    /\ IF n_intervals' <= AutoStartTicks /\ port_data /\ ~keyboard_active /\ KEYBOARD_AVAILABLE
       THEN listener' = [listener EXCEPT ![n_intervals'] = "spawned"]
       ELSE UNCHANGED listener
    /\ UNCHANGED << extRest, dataVars, keyboard_active, serial_thread_active, serial_thr, shared_ser >>

\* start_keyboard_listener: the serial thread is started, then time.sleep(1)
ListenerStartSerial(t) ==
    /\ listener[t] = "spawned"
    /\ serial_thr' = [serial_thr EXCEPT ![t] = "opening"]
    /\ listener' = [listener EXCEPT ![t] = "sleeping"]
    /\ UNCHANGED << extVars, dataVars, n_intervals, keyboard_active, serial_thread_active, shared_ser >>

\* start_keyboard_listener: the sleep is over; keyboard_active = True
ListenerActivate(t) ==
    /\ listener[t] = "sleeping"
    /\ keyboard_active' = TRUE
    /\ listener' = [listener EXCEPT ![t] = "activated"]
    /\ UNCHANGED << extVars, dataVars, n_intervals, serial_thread_active, serial_thr, shared_ser >>

\* start_keyboard_listener: keyboard.Listener(...) is created and started
ListenerStart(t) ==
    /\ listener[t] = "activated"
    /\ listener' = [listener EXCEPT ![t] = "listening"]
    /\ UNCHANGED << extVars, dataVars, n_intervals, keyboard_active, serial_thread_active,
                    serial_thr, shared_ser >>

\* start_keyboard_listener: keyboard.Listener(...) or its start() raises;
\* `except Exception` sets keyboard_active = False and the thread ends, the
\* serial thread it started keeps running
ListenerStartFail(t) ==
    /\ listener[t] = "activated"
    /\ keyboard_active' = FALSE
    /\ listener' = [listener EXCEPT ![t] = "failed"]
    /\ UNCHANGED << extVars, dataVars, n_intervals, serial_thread_active, serial_thr, shared_ser >>

\* start_keyboard_listener: `while keyboard_active` ends; listener.stop()
ListenerExit(t) ==
    /\ listener[t] = "listening"
    /\ ~keyboard_active
    /\ listener' = [listener EXCEPT ![t] = "stopped"]
    /\ UNCHANGED << extVars, dataVars, n_intervals, keyboard_active, serial_thread_active, serial_thr,
                    shared_ser >>

\* serial_communication_thread: serial.Serial(...) succeeds
SerialOpenOk(t) ==
    /\ serial_thr[t] = "opening"
    /\ shared_ser' = [owner |-> t, is_open |-> TRUE]
    /\ serial_thread_active' = TRUE
    /\ serial_thr' = [serial_thr EXCEPT ![t] = "running"]
    /\ UNCHANGED << extVars, dataVars, n_intervals, keyboard_active, listener >>

\* serial_communication_thread: serial.Serial(...) raises; outer except
SerialOpenFail(t) ==
    /\ serial_thr[t] = "opening"
    /\ serial_thread_active' = FALSE
    /\ serial_thr' = [serial_thr EXCEPT ![t] = "failed"]
    /\ UNCHANGED << extVars, dataVars, n_intervals, keyboard_active, listener, shared_ser >>

\* serial_communication_thread: `while serial_thread_active` ends; the handle
\* the global names now is closed if it is open
SerialLoopExit(t) ==
    /\ serial_thr[t] = "running"
    /\ ~serial_thread_active
    /\ shared_ser' = [shared_ser EXCEPT !.is_open = FALSE]
    /\ serial_thr' = [serial_thr EXCEPT ![t] = "exited"]
    /\ UNCHANGED << extVars, dataVars, n_intervals, keyboard_active, serial_thread_active, listener >>

\* serial_communication_thread: in_waiting/read or the parsing raises inside
\* one iteration; the inner `except Exception` catches it
SerialIterationError(t) ==
    /\ serial_thr[t] = "running"
    /\ serial_thread_active
    /\ serial_thr' = [serial_thr EXCEPT ![t] = "caught"]
    /\ UNCHANGED << extVars, dataVars, n_intervals, keyboard_active, serial_thread_active, listener,
                    shared_ser >>

\* serial_communication_thread: time.sleep(0.01) in the handler is over and the
\* loop is back at `while serial_thread_active`
SerialLoopContinue(t) ==
    /\ serial_thr[t] = "caught"
    /\ serial_thr' = [serial_thr EXCEPT ![t] = "running"]
    /\ UNCHANGED << extVars, dataVars, n_intervals, keyboard_active, serial_thread_active, listener,
                    shared_ser >>

\* stop_keyboard_listener()
StopKeyboardListener ==
    /\ keyboard_active' = FALSE
    /\ serial_thread_active' = FALSE
    /\ UNCHANGED << extVars, dataVars, n_intervals, listener, serial_thr, shared_ser >>

NextStart ==
    \/ \E port_data \in BOOLEAN : IntervalTick(port_data)
    \/ \E t \in ThreadIds : ListenerStartSerial(t)
    \/ \E t \in ThreadIds : ListenerActivate(t)
    \/ \E t \in ThreadIds : ListenerStart(t)
    \/ \E t \in ThreadIds : ListenerStartFail(t)
    \/ \E t \in ThreadIds : ListenerExit(t)
    \/ \E t \in ThreadIds : SerialOpenOk(t)
    \/ \E t \in ThreadIds : SerialOpenFail(t)
    \/ \E t \in ThreadIds : SerialLoopExit(t)
    \/ \E t \in ThreadIds : SerialIterationError(t)
    \/ \E t \in ThreadIds : SerialLoopContinue(t)
    \/ StopKeyboardListener

SpecStart == InitStart /\ [][NextStart]_vars

(* ---------------------------------------------------------------------- *)
(* CSV export and outbound commands next to the running reader             *)
(* ---------------------------------------------------------------------- *)
\* fieldnames of the csv.DictWriter: timestamp, datetime, right_joint_1..7,
\* left_joint_1..7
CsvFieldnames ==
    << <<"timestamp", 0>>, <<"datetime", 0>> >>
        \o [i \in 1..NUM_JOINTS |-> <<"right_joint", i>>]
        \o [i \in 1..NUM_JOINTS |-> <<"left_joint", i>>]

\* datetime.fromtimestamp(t).strftime('%Y-%m-%d %H:%M:%S.%f')[:-3]: the
\* local time of t to the millisecond, kept as the instant it renders
DateTimeText(t) == [local_ms_of |-> t]

\* the row written for one recorded sample, in fieldname order
CsvRowLeftFirst(entry) ==
    << entry.timestamp, DateTimeText(entry.timestamp) >> \o entry.left_arm \o entry.right_arm
CsvRow(entry) ==
    << entry.timestamp, DateTimeText(entry.timestamp) >> \o entry.right_arm \o entry.left_arm

\* save-as-btn: the device state is synchronised; `if not recorded_encoders:`
\* is evaluated before the lock is taken; an empty list ends the callback
\* with the "no data" warning
SaveAsBegin ==
    /\ export.pc = "idle"
    /\ device_active' = SyncDevice
    /\ export' = IF recorded_encoders = <<>>
                 THEN [ExportIdle EXCEPT !.status = "no_data"]
                 ELSE [ExportIdle EXCEPT !.pc = "checked"]
    /\ UNCHANGED << stream, rd, readerLocals, published, textLog, lock, clock, uiVars, startVars,
                    device_state, overlay, keyboard_state, key_physically_pressed, on_key, csv_file, cmd, ser_out, streamVars,
                    workerVars, managerVars >>

\* save-as-btn with samples present: `with lock:` is entered; `before` keeps
\* the list as it is when the export gets hold of it
SaveAsAcquire ==
    /\ export.pc = "checked"
    /\ lock = "free"
    /\ lock' = "ui"
    /\ export' = [export EXCEPT !.pc = "locked", !.before = recorded_encoders]
    /\ UNCHANGED << stream, rd, readerLocals, published, textLog, clock, uiVars, startVars,
                    device_active, device_state, overlay, keyboard_state, key_physically_pressed, on_key, csv_file, cmd, ser_out, streamVars, workerVars, managerVars >>

\* open(filepath, 'w'), DictWriter, writeheader(): the file is created and
\* the header line written
SaveAsOpen ==
    /\ export.pc = "locked"
    /\ csv_file' = << CsvFieldnames >>
    /\ export' = [export EXCEPT !.pc = "writing"]
    /\ UNCHANGED << stream, rd, readerLocals, published, textLog, lock, clock, uiVars, startVars,
                    device_active, device_state, overlay, keyboard_state, key_physically_pressed, on_key, cmd, ser_out, streamVars, workerVars, managerVars >>

\* open() raises: the `with lock:` block is left, `except` reports the failure
SaveAsOpenFail ==
    /\ export.pc = "locked"
    /\ lock' = "free"
    /\ export' = [export EXCEPT !.pc = "idle", !.status = "failed"]
    /\ UNCHANGED << stream, rd, readerLocals, published, textLog, clock, uiVars, startVars,
                    device_active, device_state, overlay, keyboard_state, key_physically_pressed, on_key, csv_file, cmd, ser_out, streamVars, workerVars, managerVars >>

\* for entry in recorded_encoders: writer.writerow(row)
SaveAsWriteRow ==
    /\ export.pc = "writing"
    /\ Len(csv_file) - 1 < Len(recorded_encoders)
    /\ csv_file' = Append(csv_file, CsvRow(recorded_encoders[Len(csv_file)]))
    /\ UNCHANGED << stream, rd, readerLocals, published, textLog, lock, clock, uiVars, startVars,
                    device_active, device_state, overlay, keyboard_state, key_physically_pressed, on_key, export, cmd, ser_out, streamVars, workerVars, managerVars >>

\* writeheader()/writerow() or the close of the file raises (disk full, the
\* medium removed): both `with` blocks are left, the file keeps what reached
\* it, and `except Exception as e` reports the failure
SaveAsWriteFailClears ==
    /\ export.pc = "writing"
    /\ lock' = "free"
    /\ recorded_encoders' = <<>>
    /\ export' = [export EXCEPT !.pc = "idle", !.status = "failed"]
    /\ UNCHANGED << stream, rd, readerLocals, latest_enc_L, latest_enc_R, stats, recent_frames,
                    textLog, clock, uiVars, startVars,
                    device_active, device_state, overlay, keyboard_state, key_physically_pressed, on_key, csv_file, cmd, ser_out, streamVars, workerVars, managerVars >>
SaveAsWriteFail ==
    /\ export.pc = "writing"
    /\ lock' = "free"
    /\ export' = [export EXCEPT !.pc = "idle", !.status = "failed"]
    /\ UNCHANGED << stream, rd, readerLocals, published, textLog, clock, uiVars, startVars,
                    device_active, device_state, overlay, keyboard_state, key_physically_pressed, on_key, csv_file, cmd, ser_out, streamVars, workerVars, managerVars >>

\* the loop is over: the file is closed, data_count/duration are computed and
\* the `with lock:` block is left; the success alert is returned
SaveAsRelease ==
    /\ export.pc = "writing"
    /\ Len(csv_file) - 1 >= Len(recorded_encoders)
    /\ lock' = "free"
    /\ export' = [export EXCEPT !.pc = "idle", !.status = "saved"]
    /\ UNCHANGED << stream, rd, readerLocals, published, textLog, clock, uiVars, startVars,
                    device_active, device_state, overlay, keyboard_state, key_physically_pressed, on_key, csv_file, cmd, ser_out, streamVars, workerVars, managerVars >>

\* commands written to the device in one run
MaxCommands == 2

\* writes and flushes that raise in one run
MaxFailures == 1

\* entries of command_history that report a failure
FailedCommands == Len(SelectSeq(command_history, LAMBDA e : ~e.success))

\* the commands the device buttons send
Commands == { "DEVICE_ON", "DEVICE_OFF", "HOME" }

\* send_keyboard_state: "KEY:" and one digit per key '1'..'6', '1' for a key
\* that is on
KeyDigit(on) == IF on THEN "1" ELSE "0"
KeyStateStr(state) ==
    "KEY:" \o KeyDigit(state["1"]) \o KeyDigit(state["2"]) \o KeyDigit(state["3"])
           \o KeyDigit(state["4"]) \o KeyDigit(state["5"]) \o KeyDigit(state["6"])

\* handle_device_on_button / handle_device_off_button / handle_go_home_button
\* up to the call of send_command_safely: the go-home handler synchronises
\* the device state; the command is refused while the device is off (HOME
\* only), while the handle is closed, or while key '1' or key '4' marks its
\* arm as gravity-compensated
ButtonCheck(command) ==
    /\ cmd.pc = "idle"
    /\ Len(ser_out) < MaxCommands
    /\ device_active' = IF command = "HOME" THEN SyncDevice ELSE device_active
    /\ cmd' = IF \/ command = "HOME" /\ ~device_active'
                 \/ ~shared_ser.is_open
                 \/ keyboard_state["1"] \/ keyboard_state["4"]
              THEN [pc |-> "idle", command |-> "refused"]
              ELSE [pc |-> "send", command |-> command]
    /\ UNCHANGED << stream, rd, readerLocals, published, textLog, lock, clock, uiVars, startVars,
                    device_state, overlay, keyboard_state, key_physically_pressed, on_key, export, csv_file, ser_out, streamVars,
                    workerVars, managerVars >>

\* send_command_safely(command): `if not shared_ser or not shared_ser.is_open`
\* returns the failure; nothing is written and nothing is logged
SendCommandNoSerial ==
    /\ cmd.pc = "send"
    /\ ~shared_ser.is_open
    /\ cmd' = [pc |-> "idle", command |-> "no_serial"]
    /\ UNCHANGED << stream, rd, readerLocals, published, textLog, lock, clock, uiVars, startVars,
                    device_active, device_state, overlay, keyboard_state, key_physically_pressed, on_key, export, csv_file,
                    ser_out, streamVars, workerVars, managerVars >>

\* send_command_safely(command), handle open: shared_ser.write(command + '\n')
SendCommandWrite ==
    /\ cmd.pc = "send"
    /\ shared_ser.is_open
    /\ ser_out' = Append(ser_out, cmd.command)
    /\ cmd' = [cmd EXCEPT !.pc = "flush"]
    /\ UNCHANGED << stream, rd, readerLocals, published, textLog, lock, clock, uiVars, startVars,
                    device_active, device_state, overlay, keyboard_state, key_physically_pressed, on_key, export, csv_file,
                    streamVars, workerVars, managerVars >>

\* send_command_safely: shared_ser.write() raises; `except Exception as e`
\* logs the command as failed with str(e)
SendCommandWriteFail ==
    /\ cmd.pc = "send"
    /\ shared_ser.is_open
    /\ FailedCommands < MaxFailures
    /\ command_history' = LogCommand(command_history, cmd.command, FALSE, "error")
    /\ cmd' = [pc |-> "idle", command |-> "failed"]
    /\ UNCHANGED << stream, rd, readerLocals, published, complete_messages, lock, clock, uiVars,
                    startVars, device_active, device_state, overlay, keyboard_state, key_physically_pressed, on_key, export,
                    csv_file, ser_out, streamVars, workerVars, managerVars >>

\* send_command_safely: shared_ser.flush(); log_command(command, True, ...)
SendCommandFlush ==
    /\ cmd.pc = "flush"
    /\ command_history' = LogCommand(command_history, cmd.command, TRUE, "bytes")
    /\ cmd' = [pc |-> "idle", command |-> ""]
    /\ UNCHANGED << stream, rd, readerLocals, published, complete_messages, lock, clock, uiVars,
                    startVars, device_active, device_state, overlay, keyboard_state, key_physically_pressed, on_key, export,
                    csv_file, ser_out, streamVars, workerVars, managerVars >>

\* send_command_safely: shared_ser.flush() raises after the bytes were
\* written; `except Exception as e` logs the command as failed
SendCommandFlushFail ==
    /\ cmd.pc = "flush"
    /\ FailedCommands < MaxFailures
    /\ command_history' = LogCommand(command_history, cmd.command, FALSE, "error")
    /\ cmd' = [pc |-> "idle", command |-> "failed"]
    /\ UNCHANGED << stream, rd, readerLocals, published, complete_messages, lock, clock, uiVars,
                    startVars, device_active, device_state, overlay, keyboard_state, key_physically_pressed, on_key, export,
                    csv_file, ser_out, streamVars, workerVars, managerVars >>

\* send_keyboard_state(): nothing while the device is off or the handle is
\* closed; otherwise shared_ser.write('KEY:......\n') and log_command, or
\* log_command("KEY_STATE", False, str(e)) when the write raises
SendKeyboardState(state_str, raises) ==
    IF device_active /\ shared_ser.is_open
    THEN IF raises
         THEN /\ command_history' = LogCommand(command_history, "KEY_STATE", FALSE, "error")
              /\ UNCHANGED ser_out
         ELSE /\ ser_out' = Append(ser_out, state_str)
              /\ command_history' = LogCommand(command_history, state_str, TRUE, "keyboard")
    ELSE UNCHANGED << ser_out, command_history >>

\* handle_special_key_functions(key, is_press=True), the recording flag it
\* leaves: nothing is done while the device is off; key '2' sets
\* recording_active = keyboard_state['2']
HandleSpecialKeyFunctionsToggles(key, state) ==
    IF device_active /\ key = "2" THEN ~recording_active ELSE recording_active
HandleSpecialKeyFunctions(key, state) ==
    IF device_active /\ key = "2" THEN state["2"] ELSE recording_active

\* handle_special_key_functions(key, is_press=True) goes on to
\* `with lock: recorded_encoders.clear()`: key '5', device on
SpecialKeyClears(key) == device_active /\ key = "5"

\* on_key_press while the device is off, or for a key that is still held
\* down (key repeat): the call returns at once
OnKeyPressIgnored(key) ==
    /\ on_key.pc = "idle"
    /\ ~device_active \/ key_physically_pressed[key]
    /\ UNCHANGED vars

\* on_key_press for a key that was not held down, device on: the key is
\* marked as held; a toggle key inverts its state and key '2' sets the
\* recording flag from it; a push key is switched on; then
\* send_keyboard_state() reports the new state.  Key '5' first has to enter
\* `with lock:` in handle_special_key_functions and sends after it
OnKeyPress(key, raises) ==
    /\ on_key.pc = "idle"
    /\ device_active
    /\ ~key_physically_pressed[key]
    /\ Len(ser_out) < MaxCommands
    /\ raises => FailedCommands < MaxFailures
    /\ key_physically_pressed' = [key_physically_pressed EXCEPT ![key] = TRUE]
    /\ keyboard_state' = [keyboard_state EXCEPT ![key] = IF key \in ToggleKeys THEN ~@ ELSE TRUE]
    /\ recording_active' = HandleSpecialKeyFunctions(key, keyboard_state')
    /\ IF SpecialKeyClears(key)
       THEN /\ on_key' = [pc |-> "clear"]
            /\ UNCHANGED << ser_out, command_history >>
       ELSE /\ SendKeyboardState(KeyStateStr(keyboard_state'), raises)
            /\ UNCHANGED on_key
    /\ UNCHANGED << stream, rd, readerLocals, published, complete_messages, lock, clock,
                    save_btn_text, ui_view, display, clearing, startVars, device_active,
                    device_state, overlay, export, csv_file, cmd, streamVars, workerVars,
                    managerVars >>

\* on_key_press('5'), inside handle_special_key_functions: `with lock:` is
\* entered once the lock is free, recorded_encoders.clear(), the lock is
\* left; send_keyboard_state() is still to come
SpecialKeyClear ==
    /\ on_key.pc = "clear"
    /\ lock = "free"
    /\ recorded_encoders' = <<>>
    /\ on_key' = [pc |-> "send"]
    /\ UNCHANGED << stream, rd, readerLocals, latest_enc_L, latest_enc_R, stats, recent_frames,
                    textLog, lock, clock, uiVars, startVars, device_active,
                    device_state, overlay, keyboard_state, key_physically_pressed, export,
                    csv_file, cmd, ser_out, streamVars, workerVars, managerVars >>

\* on_key_press('5'), back from handle_special_key_functions:
\* send_keyboard_state() reports the state
OnKeyPressSend(raises) ==
    /\ on_key.pc = "send"
    /\ raises => FailedCommands < MaxFailures
    /\ SendKeyboardState(KeyStateStr(keyboard_state), raises)
    /\ on_key' = [pc |-> "idle"]
    /\ UNCHANGED << stream, rd, readerLocals, published, complete_messages, lock, clock,
                    uiVars, startVars, device_active,
                    device_state, overlay, keyboard_state, key_physically_pressed, export,
                    csv_file, cmd, streamVars, workerVars, managerVars >>

\* on_key_release, device on: the key is no longer held; a push key that is
\* on is switched off and send_keyboard_state() reports the new state
OnKeyRelease(key, raises) ==
    /\ on_key.pc = "idle"
    /\ device_active
    /\ (key \in PushKeys /\ keyboard_state[key]) => Len(ser_out) < MaxCommands
    /\ raises => FailedCommands < MaxFailures
    /\ key_physically_pressed' = [key_physically_pressed EXCEPT ![key] = FALSE]
    /\ IF key \in PushKeys /\ keyboard_state[key]
       THEN /\ keyboard_state' = [keyboard_state EXCEPT ![key] = FALSE]
            /\ SendKeyboardState(KeyStateStr(keyboard_state'), raises)
       ELSE UNCHANGED << keyboard_state, ser_out, command_history >>
    /\ UNCHANGED << stream, rd, readerLocals, published, complete_messages, lock, clock, uiVars,
                    startVars, device_active, device_state, overlay, on_key, export, csv_file,
                    cmd, streamVars, workerVars, managerVars >>

\* update_arm_status_display, on every interval tick: the device state is
\* synchronised with the store; the LED styles it returns are not followed
UpdateArmStatusDisplay ==
    /\ device_active' = SyncDevice
    /\ UNCHANGED << stream, rd, readerLocals, published, textLog, lock, clock, uiVars, startVars,
                    device_state, overlay, keyboard_state, key_physically_pressed, on_key,
                    export, csv_file, cmd, ser_out, streamVars, workerVars, managerVars >>

\* the buttons that trigger handle_selective_overlay_control
OverlayTriggers == { "device-on-btn", "device-off-btn" }

\* handle_selective_overlay_control: Device ON activates the UI; Device OFF
\* deactivates it unless key '1' or key '4' marks an arm as
\* gravity-compensated, in which case the store content it was called with is
\* returned; the second output is on its way to the store
SelectiveOverlayControl(trigger_id) ==
    /\ overlay.pc = "idle"
    /\ IF trigger_id = "device-on-btn"
       THEN /\ device_active' = TRUE
            /\ overlay' = [pc |-> "reply", data |-> [active |-> TRUE]]
       ELSE IF keyboard_state["1"] \/ keyboard_state["4"]
            THEN /\ overlay' = [pc |-> "reply", data |-> device_state]
                 /\ UNCHANGED device_active
            ELSE /\ device_active' = FALSE
                 /\ overlay' = [pc |-> "reply", data |-> [active |-> FALSE]]
    /\ UNCHANGED << stream, rd, readerLocals, published, textLog, lock, clock, uiVars, startVars,
                    device_state, keyboard_state, key_physically_pressed, on_key, export, csv_file, cmd, ser_out, streamVars,
                    workerVars, managerVars >>

\* the browser stores the second output of handle_selective_overlay_control
OverlayReply ==
    /\ overlay.pc = "reply"
    /\ device_state' = overlay.data
    /\ overlay' = [overlay EXCEPT !.pc = "idle"]
    /\ UNCHANGED << stream, rd, readerLocals, published, textLog, lock, clock, uiVars, startVars,
                    device_active, keyboard_state, key_physically_pressed, on_key, export, csv_file, cmd, ser_out, streamVars,
                    workerVars, managerVars >>

\* the bytes delivered while the export and the commands are followed: a
\* damaged frame, a frame and a status line, or two frames in a row
StreamIo == Corrupt(FrameA) \o FrameB \o TextMoving
StreamIoTwo == FrameA \o FrameB
StreamCmd == TextOk

\* the sizes in_waiting reports in that run
IoChunks == { Len(TextMoving), FRAME_LEN }

\* the page with its reader loop running on an open handle, the device about
\* to send the bytes s
InitRunningOn(s) ==
    /\ stream = s
    /\ rd = 0
    /\ buf = <<>>
    /\ pc = "read"
    /\ left_arm = <<>>
    /\ right_arm = <<>>
    /\ ts = 0
    /\ line = <<>>
    /\ latest_enc_L = Zeros
    /\ latest_enc_R = Zeros
    /\ recorded_encoders = <<>>
    /\ recording_active = FALSE
    /\ stats = [last_ts |-> 0]
    /\ recent_frames = <<>>
    /\ complete_messages = <<>>
    /\ command_history = <<>>
    /\ lock = "free"
    /\ clock = 1
    /\ save_btn_text = "Recording"
    /\ ui_view = <<>>
    /\ display = [pc |-> "idle", lines |-> <<>>]
    /\ clearing = FALSE
    /\ n_intervals = AutoStartTicks + 1
    /\ keyboard_active = TRUE
    /\ serial_thread_active = TRUE
    /\ listener = [t \in ThreadIds |-> IF t = 1 THEN "listening" ELSE "none"]
    /\ serial_thr = [t \in ThreadIds |-> IF t = 1 THEN "running" ELSE "none"]
    /\ shared_ser = [owner |-> 1, is_open |-> TRUE]
    /\ InitExt

InitSpecIo == \E s \in { StreamIo, StreamIoTwo } : InitRunningOn(s)

NextIo ==
    \/ \E n \in IoChunks : ReadChunk(n)
    \/ ParseBreak
    \/ ParseBadCrc
    \/ ParseGoodFrame
    \/ SetLatestL
    \/ SetLatestR
    \/ RecordSample
    \/ UpdateStats
    \/ AppendRecent
    \/ TextBreak
    \/ TextStep
    \/ TextLog
    \/ HandleSaveBtn
    \/ HandleClearEnter
    \/ HandleClearBtn
    \/ SaveAsBegin
    \/ SaveAsAcquire
    \/ SaveAsOpen
    \/ SaveAsOpenFail
    \/ SaveAsWriteRow
    \/ SaveAsWriteFail
    \/ SaveAsRelease

SpecIo == InitSpecIo /\ [][NextIo]_vars

\* the reader at `while serial_thread_active`: the flag is down, the loop
\* ends and the handle is closed
ReaderLoopExit == pc = "read" /\ SerialLoopExit(1)

\* the device buttons and the key listener next to the reader, the device
\* sending one text line
InitCmd == InitRunningOn(StreamCmd)

\* the keys pressed and released in that run: the two arm toggles and a push key
CmdKeys == { "1", "4", "3" }

NextCmd ==
    \/ ReadChunk(Len(StreamCmd))
    \/ ParseBreak
    \/ TextBreak
    \/ TextStep
    \/ \E command \in Commands : ButtonCheck(command)
    \/ SendCommandNoSerial
    \/ SendCommandWrite
    \/ SendCommandWriteFail
    \/ SendCommandFlush
    \/ SendCommandFlushFail
    \/ CheckForCompleteMessages(Len(StreamCmd))
    \/ \E key \in CmdKeys : OnKeyPressIgnored(key)
    \/ \E key \in CmdKeys, raises \in BOOLEAN : OnKeyPress(key, raises)
    \/ \E key \in CmdKeys, raises \in BOOLEAN : OnKeyRelease(key, raises)
    \/ UpdateArmStatusDisplay
    \/ \E trigger_id \in OverlayTriggers : SelectiveOverlayControl(trigger_id)
    \/ OverlayReply
    \/ StopKeyboardListener
    \/ ReaderLoopExit

SpecCmd == InitCmd /\ [][NextCmd]_vars

\* the display and the Device ON/OFF buttons next to the reader, the device
\* sending two frames
InitDisplay == InitRunningOn(StreamIoTwo)

NextDisplay ==
    \/ ReadChunk(FRAME_LEN)
    \/ ParseBreak
    \/ ParseGoodFrame
    \/ SetLatestL
    \/ SetLatestR
    \/ RecordSample
    \/ UpdateStats
    \/ AppendRecent
    \/ TextBreak
    \/ HandleSaveBtn
    \/ DisplaySyncDevice
    \/ DisplaySnapshot
    \/ UpdateEncoderDisplay
    \/ DisplayRecorded
    \/ UpdateArmStatusDisplay
    \/ \E trigger_id \in OverlayTriggers : SelectiveOverlayControl(trigger_id)
    \/ OverlayReply

SpecDisplay == InitDisplay /\ [][NextDisplay]_vars

(* ---------------------------------------------------------------------- *)
(* GRPCDataManager: the operations that take its lock                      *)
(* ---------------------------------------------------------------------- *)
\* calls into the data manager followed in one run
MaxManagerCalls == 3

\* the methods whose body is one `with self.lock:` block
LockedOps ==
    { "connect_client", "disconnect_client", "start_recording", "stop_recording",
      "add_grpc_entry", "update_encoder_data", "save_encoder_pose",
      "update_robot_state", "clear_poses", "reset_all_data", "update_gain_values" }

\* keyword arguments given to update_robot_state: a known flag, a known
\* nested dict, and a key robot_state does not have
RobotStateUpdates ==
    { [connected |-> TRUE], [connected |-> FALSE], [recording |-> [active |-> TRUE]],
      [mode |-> TRUE] }

\* gains in hundredths: 0.2, 1.0 and the defaults 0.6 and 0.7
GAIN_MIN == 20
GAIN_MAX == 100
DEFAULT_SHOULDER == 60
DEFAULT_JOINT == 70

\* the (shoulder_gain, joint_gain) pairs a GravityCompGain request carries,
\* in hundredths: one inside [0.2, 1.0] and one with a gain below it
GravityGains == { << 80, 90 >>, << 10, 90 >> }

\* what the callers pass: the entry type of add_grpc_entry, the angles of
\* update_encoder_data and save_encoder_pose, the command of PowerOff, the
\* gains of GravityCompGain
ManagerCalls ==
    { [fn |-> f, arg |-> ""] :
        f \in { "connect_client", "disconnect_client", "start_recording", "stop_recording" } }
    \cup { [fn |-> "add_grpc_entry", arg |-> "INFO"] }
    \cup { [fn |-> f, arg |-> <<1, 2>>] : f \in { "update_encoder_data", "save_encoder_pose" } }
    \cup { [fn |-> "PowerOff", arg |-> c] : c \in { "POWER_OFF", "REBOOT" } }
    \cup { [fn |-> "GravityCompGain", arg |-> g] : g \in GravityGains }
    \cup { [fn |-> "update_robot_state", arg |-> kwargs] : kwargs \in RobotStateUpdates }
    \cup { [fn |-> f, arg |-> ""] : f \in { "clear_poses", "reset_all_data" } }

\* one activation of a method: where it is, and what it was given
Frame(fn, arg) == [fn |-> fn, pc |-> "enter", arg |-> arg]

\* the method a thread is executing: the last frame of its stack
Top(t) == callers[t][Len(callers[t])]
InMethod(t, fn, at) ==
    /\ callers[t] # <<>>
    /\ Top(t).fn = fn
    /\ Top(t).pc = at

\* the running method moves on / calls another method / returns
Goto(t, at) == [callers EXCEPT ![t][Len(callers[t])].pc = at]
CallFrom(t, at, fn, arg) == [callers EXCEPT ![t] = Append(Goto(t, at)[t], Frame(fn, arg))]
Return(t) == [callers EXCEPT ![t] = SubSeq(callers[t], 1, Len(callers[t]) - 1)]

\* a thread calls a public method of the data manager, or the gRPC server
\* calls its PowerOff or GravityCompGain handler
Invoke(t, call) ==
    /\ callers[t] = <<>>
    /\ Len(invoked) < MaxManagerCalls
    /\ callers' = [callers EXCEPT ![t] = << Frame(call.fn, call.arg) >>]
    /\ invoked' = Append(invoked, call.fn)
    /\ UNCHANGED << dataVars, startVars, ioVars, streamVars, workerVars,
                    dm_lock, robot_state, is_recording, encoder_data, grpc_logs, pose_data >>

\* `with self.lock:` of threading.Lock(): entered only while nobody is inside,
\* the calling thread included
WithLock(t) ==
    /\ callers[t] # <<>>
    /\ Top(t).fn \in LockedOps
    /\ Top(t).pc = "enter"
    /\ dm_lock = 0
    /\ dm_lock' = t
    /\ callers' = Goto(t, "body")
    /\ UNCHANGED << dataVars, startVars, ioVars, streamVars, workerVars,
                    robot_state, is_recording, encoder_data, grpc_logs, pose_data, invoked >>

\* the `with self.lock:` block is left: the lock is released, the method returns
ExitLock(t) ==
    /\ callers[t] # <<>>
    /\ Top(t).fn \in LockedOps
    /\ Top(t).pc = "exit"
    /\ dm_lock' = 0
    /\ callers' = Return(t)
    /\ UNCHANGED << dataVars, startVars, ioVars, streamVars, workerVars,
                    robot_state, is_recording, encoder_data, grpc_logs, pose_data, invoked >>

\* connect_client, inside the lock: connected = True, then
\* self.add_grpc_entry("CONNECT", ...)
ConnectClient(t) ==
    /\ InMethod(t, "connect_client", "body")
    /\ robot_state' = [robot_state EXCEPT !.connected = TRUE]
    /\ callers' = CallFrom(t, "exit", "add_grpc_entry", "CONNECT")
    /\ UNCHANGED << dataVars, startVars, ioVars, streamVars, workerVars,
                    dm_lock, is_recording, encoder_data, grpc_logs, pose_data, invoked >>

\* disconnect_client, inside the lock: connected = False, then
\* self.add_grpc_entry("DISCONNECT", ...)
DisconnectClient(t) ==
    /\ InMethod(t, "disconnect_client", "body")
    /\ robot_state' = [robot_state EXCEPT !.connected = FALSE]
    /\ callers' = CallFrom(t, "exit", "add_grpc_entry", "DISCONNECT")
    /\ UNCHANGED << dataVars, startVars, ioVars, streamVars, workerVars,
                    dm_lock, is_recording, encoder_data, grpc_logs, pose_data, invoked >>

\* add_grpc_entry, inside the lock: grpc_logs.append(entry)
AddGrpcEntry(t) ==
    /\ InMethod(t, "add_grpc_entry", "body")
    /\ grpc_logs' = Append(grpc_logs, Top(t).arg)
    /\ callers' = Goto(t, "exit")
    /\ UNCHANGED << dataVars, startVars, ioVars, streamVars, workerVars,
                    dm_lock, robot_state, is_recording, encoder_data, pose_data, invoked >>

\* the keys of value written into the dict d (d[k] = v, dict.update(value))
DictUpdate(d, value) ==
    [k \in DOMAIN d \cup DOMAIN value |-> IF k \in DOMAIN value THEN value[k] ELSE d[k]]

\* start_recording, inside the lock: the flag is set, and in
\* robot_state["recording"] "active" = True and "start_time" = time.time()
StartRecording(t) ==
    /\ InMethod(t, "start_recording", "body")
    /\ is_recording' = TRUE
    /\ robot_state' =
          [robot_state EXCEPT
              !.recording = DictUpdate(@, [active |-> TRUE, start_time |-> clock])]
    /\ clock' = clock + 1
    /\ callers' = Goto(t, "exit")
    /\ UNCHANGED << stream, rd, readerLocals, published, textLog, lock, uiVars,
                    startVars, ioVars, streamVars, workerVars,
                    dm_lock, encoder_data, grpc_logs, pose_data, invoked >>

\* stop_recording, inside the lock: nothing when not recording; otherwise the
\* flag is cleared and, with encoder data present, the latest angles are
\* handed to self.save_encoder_pose(...)
StopRecording(t) ==
    /\ InMethod(t, "stop_recording", "body")
    /\ IF ~is_recording
       THEN /\ callers' = Goto(t, "exit")
            /\ UNCHANGED << is_recording, robot_state >>
       ELSE /\ is_recording' = FALSE
            /\ robot_state' = [robot_state EXCEPT !.recording.active = FALSE]
            /\ callers' =
                  IF encoder_data # <<>>
                  THEN CallFrom(t, "exit", "save_encoder_pose", encoder_data[Len(encoder_data)])
                  ELSE Goto(t, "exit")
    /\ UNCHANGED << dataVars, startVars, ioVars, streamVars, workerVars,
                    dm_lock, encoder_data, grpc_logs, pose_data, invoked >>

\* save_encoder_pose, inside the lock: pose_data.append(pose)
SaveEncoderPose(t) ==
    /\ InMethod(t, "save_encoder_pose", "body")
    /\ pose_data' = Append(pose_data, Top(t).arg)
    /\ callers' = Goto(t, "exit")
    /\ UNCHANGED << dataVars, startVars, ioVars, streamVars, workerVars,
                    dm_lock, robot_state, is_recording, encoder_data, grpc_logs, invoked >>

\* update_encoder_data, inside the lock: encoder_data.append(sample)
UpdateEncoderData(t) ==
    /\ InMethod(t, "update_encoder_data", "body")
    /\ encoder_data' = Append(encoder_data, Top(t).arg)
    /\ callers' = Goto(t, "exit")
    /\ UNCHANGED << dataVars, startVars, ioVars, streamVars, workerVars,
                    dm_lock, robot_state, is_recording, grpc_logs, pose_data, invoked >>

\* the keys of robot_state whose value is a dict
NestedKeys == { "recording" }

\* update_robot_state, inside the lock: every keyword that is a key of
\* robot_state overwrites it, a dict given for a dict is merged into it;
\* other keywords are ignored
UpdateRobotState(t) ==
    /\ InMethod(t, "update_robot_state", "body")
    /\ LET kwargs == Top(t).arg
       IN  robot_state' =
              [key \in DOMAIN robot_state |->
                  IF key \notin DOMAIN kwargs THEN robot_state[key]
                  ELSE IF key \in NestedKeys THEN DictUpdate(robot_state[key], kwargs[key])
                  ELSE kwargs[key]]
    /\ callers' = Goto(t, "exit")
    /\ UNCHANGED << dataVars, startVars, ioVars, streamVars, workerVars,
                    dm_lock, is_recording, encoder_data, grpc_logs, pose_data, invoked >>

\* clear_poses, inside the lock: pose_data.clear()
ClearPoses(t) ==
    /\ InMethod(t, "clear_poses", "body")
    /\ pose_data' = <<>>
    /\ callers' = Goto(t, "exit")
    /\ UNCHANGED << dataVars, startVars, ioVars, streamVars, workerVars,
                    dm_lock, robot_state, is_recording, encoder_data, grpc_logs, invoked >>

\* reset_all_data, inside the lock: encoder_data, pose_data and grpc_logs
\* are emptied (and the streaming and recorded-sample stores)
ResetAllData(t) ==
    /\ InMethod(t, "reset_all_data", "body")
    /\ encoder_data' = <<>>
    /\ pose_data' = <<>>
    /\ grpc_logs' = <<>>
    /\ callers' = Goto(t, "exit")
    /\ UNCHANGED << dataVars, startVars, ioVars, streamVars, workerVars,
                    dm_lock, robot_state, is_recording, invoked >>

\* PCGRPCServiceImpl.PowerOff and GravityCompGain, first statement:
\* self._log_request(...), which calls
\* grpc_data_manager.add_grpc_entry("RECEIVED", ...)
LogRequest(t) ==
    /\ InMethod(t, "PowerOff", "enter") \/ InMethod(t, "GravityCompGain", "enter")
    /\ callers' = CallFrom(t, "command", "add_grpc_entry", "RECEIVED")
    /\ UNCHANGED << dataVars, startVars, ioVars, streamVars, workerVars,
                    dm_lock, robot_state, is_recording, encoder_data, grpc_logs, pose_data,
                    invoked >>

\* PowerOff: POWER_OFF calls grpc_data_manager.disconnect_client() first;
\* every command goes on to add_grpc_entry("POWER", message)
PowerOff(t) ==
    /\ InMethod(t, "PowerOff", "command")
    /\ callers' = IF Top(t).arg = "POWER_OFF"
                  THEN CallFrom(t, "log", "disconnect_client", "")
                  ELSE Goto(t, "log")
    /\ UNCHANGED << dataVars, startVars, ioVars, streamVars, workerVars,
                    dm_lock, robot_state, is_recording, encoder_data, grpc_logs, pose_data,
                    invoked >>

\* PowerOff: grpc_data_manager.add_grpc_entry("POWER", message)
PowerOffLog(t) ==
    /\ InMethod(t, "PowerOff", "log")
    /\ callers' = CallFrom(t, "reply", "add_grpc_entry", "POWER")
    /\ UNCHANGED << dataVars, startVars, ioVars, streamVars, workerVars,
                    dm_lock, robot_state, is_recording, encoder_data, grpc_logs, pose_data,
                    invoked >>

\* PowerOff: return pb2.PowerOffReply(message=message)
PowerOffReply(t) ==
    /\ InMethod(t, "PowerOff", "reply")
    /\ callers' = Return(t)
    /\ UNCHANGED << dataVars, startVars, ioVars, streamVars, workerVars,
                    dm_lock, robot_state, is_recording, encoder_data, grpc_logs, pose_data,
                    invoked >>

\* PCGRPCServiceImpl.GravityCompGain, after _log_request: a gain outside
\* [0.2, 1.0] is answered after grpc_data_manager.add_grpc_entry("GAIN_ERROR",
\* ...); otherwise grpc_data_manager.update_gain_values(shoulder_gain,
\* joint_gain) is called
GravityCompGain(t) ==
    /\ InMethod(t, "GravityCompGain", "command")
    /\ LET shoulder_gain == Top(t).arg[1]
           joint_gain == Top(t).arg[2]
       IN  callers' =
              IF \/ ~(GAIN_MIN <= shoulder_gain /\ shoulder_gain <= GAIN_MAX)
                 \/ ~(GAIN_MIN <= joint_gain /\ joint_gain <= GAIN_MAX)
              THEN CallFrom(t, "reply", "add_grpc_entry", "GAIN_ERROR")
              ELSE CallFrom(t, "reply", "update_gain_values", Top(t).arg)
    /\ UNCHANGED << dataVars, startVars, ioVars, streamVars, workerVars,
                    dm_lock, robot_state, is_recording, encoder_data, grpc_logs, pose_data,
                    invoked >>

\* update_gain_values, inside the lock: gain_values["shoulder_gain"] and
\* gain_values["joint_gain"] are overwritten
UpdateGainValues(t) ==
    /\ InMethod(t, "update_gain_values", "body")
    /\ gain_values' = [shoulder_gain |-> Top(t).arg[1], joint_gain |-> Top(t).arg[2]]
    /\ callers' = Goto(t, "exit")
    /\ UNCHANGED << dataVars, startVars, ioVars, streamVars, running, task_queue, result_queue,
                    bworker, bstop, grpc_client_available, rpc_log, submitted, polled,
                    dm_lock, robot_state, is_recording, encoder_data, grpc_logs, pose_data,
                    invoked >>

\* GravityCompGain: return pb2.GravityCompGainReply(message=...)
GravityCompGainReply(t) ==
    /\ InMethod(t, "GravityCompGain", "reply")
    /\ callers' = Return(t)
    /\ UNCHANGED << dataVars, startVars, ioVars, streamVars, workerVars,
                    dm_lock, robot_state, is_recording, encoder_data, grpc_logs, pose_data,
                    invoked >>

\* a call made into the data manager by another thread while a stream
\* worker or the BackgroundWorker is at work
BesideCalls ==
    { [fn |-> "connect_client", arg |-> ""], [fn |-> "add_grpc_entry", arg |-> "INFO"],
      [fn |-> "save_encoder_pose", arg |-> <<1, 2>>] }

\* a pose saved by another thread while the BackgroundWorker is at work
SavePoseStep ==
    \/ invoked = <<>> /\ Invoke(1, [fn |-> "save_encoder_pose", arg |-> <<1, 2>>])
    \/ WithLock(1)
    \/ ExitLock(1)
    \/ SaveEncoderPose(1)

\* a GravityCompGain request reaches a gRPC server thread, wherever the
\* BackgroundWorker is, and the steps of the handler (its lock steps are
\* WithLock and ExitLock)
GravityStep ==
    \/ \E g \in GravityGains : Invoke(1, [fn |-> "GravityCompGain", arg |-> g])
    \/ LogRequest(1)
    \/ AddGrpcEntry(1)
    \/ GravityCompGain(1)
    \/ UpdateGainValues(1)
    \/ GravityCompGainReply(1)

\* the steps of that thread
DataStep ==
    \/ invoked = <<>> /\ \E call \in BesideCalls : Invoke(1, call)
    \/ WithLock(1)
    \/ ExitLock(1)
    \/ ConnectClient(1)
    \/ AddGrpcEntry(1)
    \/ SaveEncoderPose(1)

(* ---------------------------------------------------------------------- *)
(* The queue-based stream worker: GRPCStreamHandler, and the stream worker *)
(* of GRPCDataManager, which has the same loop                             *)
(* ---------------------------------------------------------------------- *)
\* queue.Queue(maxsize=max_queue_size), scaled down
MaxQueueSize == 2
\* add_sample calls followed
MaxSamples == 3
\* callbacks that get registered
MaxCallbacks == 2
CallbackIds == 1..MaxCallbacks

Handler == "GRPCStreamHandler"
Manager == "GRPCDataManager"

\* the state after construction: a GRPCStreamHandler is not running until
\* start(); GRPCDataManager.__init__ starts its stream worker itself
InitStreamObject ==
    /\ impl \in { Handler, Manager }
    /\ is_running = (impl = Manager)
    /\ data_queue = <<>>
    /\ callbacks = <<>>
    /\ hstats = [total_samples |-> 0, processed_samples |-> 0, dropped_samples |-> 0]
    /\ hworker = [w \in WorkerIds |->
                     IF impl = Manager /\ w = 1
                     THEN [IdleConsumer EXCEPT !.pc = "loop"] ELSE IdleConsumer]
    /\ hstop = [pc |-> "idle", w |-> 0]
    /\ next_seq = 1
    /\ accepted = <<>>
    /\ add_ret = [sample |-> NONE, ret |-> FALSE]
    /\ producer = [pc |-> "idle", sample |-> NONE]
    /\ delivered = <<>>

\* the consumer threads started so far; worker_thread names the last one
Started == { w \in WorkerIds : hworker[w].pc # "none" }
WorkerThread == IF Started = {} THEN 0 ELSE CHOOSE w \in Started : \A v \in Started : v <= w

\* is_alive() of a consumer thread
IsAlive(w) == w # 0 /\ hworker[w].pc \notin { "none", "exited" }

\* add_callback(callback) / add_stream_callback(callback): with self.lock:
\* callbacks.append(callback); the lock of GRPCDataManager is the one its data
\* operations take
AddCallback(c) ==
    /\ impl \in { Handler, Manager }
    /\ impl = Manager => dm_lock = 0
    /\ Len(callbacks) < MaxCallbacks
    /\ callbacks' = Append(callbacks, c)
    /\ UNCHANGED << dataVars, startVars, ioVars, workerVars, managerVars, impl, is_running, data_queue,
                    hstats, hworker, hstop, next_seq, accepted, add_ret, producer, delivered >>

\* list.remove(x): the first occurrence of x is taken out
RemoveFirst(s, x) ==
    LET k == CHOOSE i \in 1..Len(s) : s[i] = x /\ \A j \in 1..(i - 1) : s[j] # x
    IN  SubSeq(s, 1, k - 1) \o SubSeq(s, k + 1, Len(s))

\* GRPCStreamHandler.remove_callback(callback): with self.lock: the first
\* occurrence is removed when the callback is registered, nothing otherwise
RemoveCallback(c) ==
    /\ impl = Handler
    /\ callbacks' = IF \E k \in 1..Len(callbacks) : callbacks[k] = c
                    THEN RemoveFirst(callbacks, c) ELSE callbacks
    /\ UNCHANGED << dataVars, startVars, ioVars, workerVars, managerVars, impl, is_running, data_queue,
                    hstats, hworker, hstop, next_seq, accepted, add_ret, producer, delivered >>

\* GRPCStreamHandler.start(): no-op while is_running; otherwise the flag is
\* set and a new consumer thread is created and started
Start ==
    /\ impl = Handler
    /\ hstop.pc = "idle"
    /\ ~is_running
    /\ WorkerThread < MaxStarts
    /\ is_running' = TRUE
    /\ hworker' = [hworker EXCEPT ![WorkerThread + 1] = [IdleConsumer EXCEPT !.pc = "loop"]]
    /\ UNCHANGED << dataVars, startVars, ioVars, workerVars, managerVars, impl, data_queue, callbacks,
                    hstats, hstop, next_seq, accepted, add_ret, producer, delivered >>

\* stop() / cleanup(): the flag is cleared (GRPCStreamHandler.stop returns at
\* once when it is already clear)
StopBegin ==
    /\ impl \in { Handler, Manager }
    /\ hstop.pc = "idle"
    /\ impl = Handler => is_running
    /\ is_running' = FALSE
    /\ hstop' = [pc |-> "put", w |-> WorkerThread]
    /\ UNCHANGED << dataVars, startVars, ioVars, workerVars, managerVars, impl, data_queue, callbacks,
                    hstats, hworker, next_seq, accepted, add_ret, producer, delivered >>

\* data_queue.put(None, timeout=1.0) finds room
StopPut ==
    /\ hstop.pc = "put"
    /\ Len(data_queue) < MaxQueueSize
    /\ data_queue' = Append(data_queue, NONE)
    /\ hstop' = [hstop EXCEPT !.pc = "join"]
    /\ UNCHANGED << dataVars, startVars, ioVars, workerVars, managerVars, impl, is_running, callbacks,
                    hstats, hworker, next_seq, accepted, add_ret, producer, delivered >>

\* data_queue.put(None, timeout=1.0) times out on a full queue: queue.Full, pass
StopPutFull ==
    /\ hstop.pc = "put"
    /\ Len(data_queue) >= MaxQueueSize
    /\ hstop' = [hstop EXCEPT !.pc = "join"]
    /\ UNCHANGED << dataVars, startVars, ioVars, workerVars, managerVars, impl, is_running, data_queue,
                    callbacks, hstats, hworker, next_seq, accepted, add_ret, producer, delivered >>

\* worker_thread.join(timeout=2.0) returns because the thread has ended (or
\* there was none, or it was not alive)
StopJoin ==
    /\ hstop.pc = "join"
    /\ ~IsAlive(hstop.w)
    /\ hstop' = [pc |-> "idle", w |-> 0]
    /\ UNCHANGED << dataVars, startVars, ioVars, workerVars, managerVars, impl, is_running, data_queue,
                    callbacks, hstats, hworker, next_seq, accepted, add_ret, producer, delivered >>

\* worker_thread.join(timeout=2.0) times out: only a consumer that is inside
\* the callbacks of a sample, or waiting for the lock around the callback
\* list, can outlast it (its get() waits 0.1 s at most)
StopJoinTimeout ==
    /\ hstop.pc = "join"
    /\ IsAlive(hstop.w)
    /\ \/ hworker[hstop.w].pc = "cb"
       \/ hworker[hstop.w].pc = "got" /\ impl = Manager /\ dm_lock # 0
    /\ hstop' = [pc |-> "idle", w |-> 0]
    /\ UNCHANGED << dataVars, startVars, ioVars, workerVars, managerVars, impl, is_running, data_queue,
                    callbacks, hstats, hworker, next_seq, accepted, add_ret, producer, delivered >>

\* put_nowait(sample) on a queue with `full` room taken: the queue afterwards
PutNowait(q, sample) == Append(q, sample)

\* what a caller passes as angles: a list, or None (angles[:] raises TypeError)
AnglesGiven == { "list", "None" }

\* GRPCStreamHandler.add_sample, up to the sample object: False when not
\* running; `angles[:]` of something that is no list raises, the exception
\* is caught and the call returns False with nothing counted
AddSample(angles) ==
    /\ impl = Handler
    /\ producer.pc = "idle"
    /\ next_seq <= MaxSamples
    /\ next_seq' = next_seq + 1
    /\ IF is_running /\ angles = "list"
       THEN /\ producer' = [pc |-> "put", sample |-> next_seq]
            /\ UNCHANGED add_ret
       ELSE /\ add_ret' = [sample |-> next_seq, ret |-> FALSE]
            /\ UNCHANGED producer
    /\ UNCHANGED << dataVars, startVars, ioVars, workerVars, managerVars, impl, is_running, data_queue,
                    callbacks, hstats, hworker, hstop, accepted, delivered >>

\* add_sample: data_queue.put_nowait(sample); on queue.Full
\* dropped_samples += 1 and False
AddSamplePut ==
    /\ producer.pc = "put"
    /\ IF Len(data_queue) < MaxQueueSize
       THEN /\ data_queue' = PutNowait(data_queue, producer.sample)
            /\ accepted' = Append(accepted, producer.sample)
            /\ producer' = [producer EXCEPT !.pc = "count"]
            /\ UNCHANGED << hstats, add_ret >>
       ELSE /\ hstats' = [hstats EXCEPT !.dropped_samples = @ + 1]
            /\ add_ret' = [sample |-> producer.sample, ret |-> FALSE]
            /\ producer' = [pc |-> "idle", sample |-> NONE]
            /\ UNCHANGED << data_queue, accepted >>
    /\ UNCHANGED << dataVars, startVars, ioVars, workerVars, managerVars, impl, is_running, callbacks,
                    hworker, hstop, next_seq, delivered >>

\* add_sample: self.stats["total_samples"] += 1; return True
AddSampleCount ==
    /\ producer.pc = "count"
    /\ hstats' = [hstats EXCEPT !.total_samples = @ + 1]
    /\ add_ret' = [sample |-> producer.sample, ret |-> TRUE]
    /\ producer' = [pc |-> "idle", sample |-> NONE]
    /\ UNCHANGED << dataVars, startVars, ioVars, workerVars, managerVars, impl, is_running, data_queue,
                    callbacks, hworker, hstop, next_seq, accepted, delivered >>

\* GRPCDataManager.add_stream_sample: put_nowait and True; on queue.Full
\* False; on any other exception (angles[:] of None) False
AddStreamSample(angles) ==
    /\ impl = Manager
    /\ next_seq <= MaxSamples
    /\ next_seq' = next_seq + 1
    /\ IF angles = "list" /\ Len(data_queue) < MaxQueueSize
       THEN /\ data_queue' = PutNowait(data_queue, next_seq)
            /\ accepted' = Append(accepted, next_seq)
            /\ add_ret' = [sample |-> next_seq, ret |-> TRUE]
       ELSE /\ add_ret' = [sample |-> next_seq, ret |-> FALSE]
            /\ UNCHANGED << data_queue, accepted >>
    /\ UNCHANGED << dataVars, startVars, ioVars, workerVars, managerVars, impl, is_running, callbacks,
                    hstats, hworker, hstop, producer, delivered >>

\* _worker_loop: `while self.is_running:`
WorkerLoopCheck(w) ==
    /\ hworker[w].pc = "loop"
    /\ hworker' = [hworker EXCEPT ![w].pc = IF is_running THEN "get" ELSE "exited"]
    /\ UNCHANGED << dataVars, startVars, ioVars, workerVars, managerVars, impl, is_running, data_queue,
                    callbacks, hstats, hstop, next_seq, accepted, add_ret, producer, delivered >>

\* _worker_loop: data_queue.get(timeout=0.1) raises queue.Empty; continue
WorkerLoopEmpty(w) ==
    /\ hworker[w].pc = "get"
    /\ data_queue = <<>>
    /\ hworker' = [hworker EXCEPT ![w].pc = "loop"]
    /\ UNCHANGED << dataVars, startVars, ioVars, workerVars, managerVars, impl, is_running, data_queue,
                    callbacks, hstats, hstop, next_seq, accepted, add_ret, producer, delivered >>

\* _process_sample: with self.lock: callbacks_copy = self.callbacks[:]
CallbacksCopy(cbs) == cbs

\* the owner a consumer thread writes into the data manager's lock
ConsumerOwner(w) == 20 + w

\* _worker_loop: get() returns an item; None ends the loop, a sample goes to
\* _process_sample
WorkerLoopGet(w) ==
    /\ hworker[w].pc = "get"
    /\ data_queue # <<>>
    /\ data_queue' = Tail(data_queue)
    /\ hworker' = [hworker EXCEPT ![w] =
                      IF Head(data_queue) = NONE
                      THEN [@ EXCEPT !.pc = "exited"]
                      ELSE [@ EXCEPT !.pc = "got", !.sample = Head(data_queue)]]
    /\ UNCHANGED << dataVars, startVars, ioVars, workerVars, managerVars, impl, is_running, callbacks,
                    hstats, hstop, next_seq, accepted, add_ret, producer, delivered >>

\* _process_stream_sample of GRPCDataManager: `with self.lock:` is entered
\* once no data operation is inside the manager's lock
ProcessSampleLock(w) ==
    /\ impl = Manager
    /\ hworker[w].pc = "got"
    /\ dm_lock = 0
    /\ dm_lock' = ConsumerOwner(w)
    /\ hworker' = [hworker EXCEPT ![w].pc = "locked"]
    /\ UNCHANGED << dataVars, startVars, ioVars, workerVars, robot_state, is_recording, encoder_data, grpc_logs, pose_data, callers, invoked, impl, is_running,
                    data_queue, callbacks, hstats, hstop, next_seq, accepted, add_ret, producer,
                    delivered >>

\* _process_sample: callbacks_copy = self.callbacks[:] inside the lock, which
\* is left again; GRPCStreamHandler has a lock of its own that only
\* add_callback, remove_callback and get_stats take, each for one statement
ProcessSampleCopy(w) ==
    /\ hworker[w].pc = IF impl = Manager THEN "locked" ELSE "got"
    /\ dm_lock' = IF impl = Manager THEN 0 ELSE dm_lock
    /\ hworker' = [hworker EXCEPT ![w].pc = "cb", ![w].todo = CallbacksCopy(callbacks),
                                  ![w].raised = {}]
    /\ UNCHANGED << dataVars, startVars, ioVars, workerVars, robot_state, is_recording, encoder_data, grpc_logs, pose_data, callers, invoked, impl, is_running,
                    data_queue, callbacks, hstats, hstop, next_seq, accepted, add_ret, producer,
                    delivered >>

\* _process_sample: the consumer after one callback(sample) call that raised
\* or returned: the exception is caught inside the for loop
AfterCallbackUncaught(wk, raises) ==
    IF raises THEN [wk EXCEPT !.pc = "loop", !.todo = <<>>, !.raised = @ \cup { Head(wk.todo) }]
    ELSE [wk EXCEPT !.todo = Tail(wk.todo)]
AfterCallback(wk, raises) ==
    [wk EXCEPT !.todo = Tail(wk.todo),
               !.raised = IF raises THEN @ \cup { Head(wk.todo) } ELSE @]


\* _process_sample: the next callback of the copy is called with the sample
ProcessSampleCallback(w, raises) ==
    /\ hworker[w].pc = "cb"
    /\ hworker[w].todo # <<>>
    /\ delivered' = Append(delivered, [cb |-> Head(hworker[w].todo),
                                       sample |-> hworker[w].sample, w |-> w])
    /\ hworker' = [hworker EXCEPT ![w] = AfterCallback(@, raises)]
    /\ UNCHANGED << dataVars, startVars, ioVars, workerVars, managerVars, impl, is_running, data_queue,
                    callbacks, hstats, hstop, next_seq, accepted, add_ret, producer >>

\* _worker_loop: _process_sample has returned; processed_samples += 1
\* (GRPCStreamHandler only); task_done()
WorkerLoopDone(w) ==
    /\ hworker[w].pc = "cb"
    /\ hworker[w].todo = <<>>
    /\ hworker' = [hworker EXCEPT ![w].pc = "loop", ![w].sample = NONE, ![w].raised = {}]
    /\ hstats' = IF impl = Handler THEN [hstats EXCEPT !.processed_samples = @ + 1] ELSE hstats
    /\ UNCHANGED << dataVars, startVars, ioVars, workerVars, managerVars, impl, is_running, data_queue,
                    callbacks, hstop, next_seq, accepted, add_ret, producer, delivered >>

\* callbacks are registered, and taken back, before the first sample is
\* submitted, as SaveStreamManager.__init__ does at import
RegisterStep ==
    /\ next_seq = 1
    /\ \E c \in CallbackIds :
          \/ c \notin { callbacks[k] : k \in 1..Len(callbacks) } /\ AddCallback(c)
          \/ RemoveCallback(c)

\* the steps of one add_sample / add_stream_sample call
ProducerStep ==
    \/ \E angles \in AnglesGiven : AddSample(angles)
    \/ AddSamplePut
    \/ AddSampleCount
    \/ \E angles \in AnglesGiven : AddStreamSample(angles)

\* the steps by which a stop() / cleanup() call that has begun goes on
StopStep ==
    \/ StopPut
    \/ StopPutFull
    \/ StopJoin
    \/ StopJoinTimeout

ConsumerStep(w) ==
    \/ WorkerLoopCheck(w)
    \/ WorkerLoopEmpty(w)
    \/ WorkerLoopGet(w)
    \/ ProcessSampleLock(w)
    \/ ProcessSampleCopy(w)
    \/ \E raises \in BOOLEAN : ProcessSampleCallback(w, raises)
    \/ WorkerLoopDone(w)

NextStream ==
    \/ RegisterStep
    \/ ProducerStep
    \/ impl = Manager /\ DataStep
    \/ Start
    \/ StopBegin
    \/ StopStep
    \/ \E w \in WorkerIds : ConsumerStep(w)

\* the serial reader, the start-up threads and the USB page are not in use
InitReaderIdle ==
    /\ stream = <<>>
    /\ rd = 0
    /\ buf = <<>>
    /\ pc = "read"
    /\ left_arm = <<>>
    /\ right_arm = <<>>
    /\ ts = 0
    /\ line = <<>>
    /\ latest_enc_L = Zeros
    /\ latest_enc_R = Zeros
    /\ recorded_encoders = <<>>
    /\ recording_active = FALSE
    /\ stats = [last_ts |-> 0]
    /\ recent_frames = <<>>
    /\ complete_messages = <<>>
    /\ command_history = <<>>
    /\ lock = "free"
    /\ clock = 1
    /\ save_btn_text = "Recording"
    /\ ui_view = <<>>
    /\ display = [pc |-> "idle", lines |-> <<>>]
    /\ clearing = FALSE
    /\ n_intervals = 0
    /\ keyboard_active = FALSE
    /\ serial_thread_active = FALSE
    /\ listener = [t \in ThreadIds |-> "none"]
    /\ serial_thr = [t \in ThreadIds |-> "none"]
    /\ shared_ser = [owner |-> 0, is_open |-> FALSE]
    /\ InitIo
    /\ InitDataManager

InitStream ==
    /\ InitReaderIdle
    /\ InitStreamObject
    /\ InitWorkerIdle

SpecStream == InitStream /\ [][NextStream]_vars

(* ---------------------------------------------------------------------- *)
(* BackgroundWorker (pages/wifi_ui_1.py) and the RPC client                *)
(* ---------------------------------------------------------------------- *)
\* tasks submitted in one run
MaxTasks == 2

Worker == "BackgroundWorker"

\* what a number input can hold: nothing (<<>>), or a number in hundredths
\* (<<150>> is 1.5).  GainClicks are the (shoulder, joint) pairs the apply
\* button is clicked with: 1.5 and 0.1, and 0 with an empty field
GainClicks == { << <<150>>, <<10>> >>, << <<0>>, <<>> >> }

\* Python `g or default`: None and 0 are falsy
OrDefault(g, default) == IF g = <<>> \/ g[1] = 0 THEN default ELSE g[1]

\* max(0.2, min(1.0, float(x)))
ClampGain(x) == IF x > GAIN_MAX THEN GAIN_MAX ELSE IF x < GAIN_MIN THEN GAIN_MIN ELSE x

\* a value of a params dict, kept as a set of <<key, value>> pairs
Param(params, key) == (CHOOSE kv \in params : kv[1] = key)[2]

\* params.get(key, default)
ParamGet(params, key, default) ==
    IF \E kv \in params : kv[1] = key THEN Param(params, key) ELSE default

\* the most recently started thread (self.worker_thread), 0 for None
BwStarted == { w \in WorkerIds : bworker[w].pc # "none" }
BwWorkerThread == IF BwStarted = {} THEN 0 ELSE CHOOSE w \in BwStarted : \A v \in BwStarted : v <= w
BwIsAlive(w) == w # 0 /\ bworker[w].pc \notin { "none", "exited" }

\* the module after import: background_worker = BackgroundWorker();
\* background_worker.start()
InitWorkerObject ==
    /\ impl = Worker
    /\ is_running = FALSE
    /\ data_queue = <<>>
    /\ callbacks = <<>>
    /\ hstats = [total_samples |-> 0, processed_samples |-> 0, dropped_samples |-> 0]
    /\ hworker = [w \in WorkerIds |-> IdleConsumer]
    /\ hstop = [pc |-> "idle", w |-> 0]
    /\ next_seq = 1
    /\ accepted = <<>>
    /\ add_ret = [sample |-> NONE, ret |-> FALSE]
    /\ producer = [pc |-> "idle", sample |-> NONE]
    /\ delivered = <<>>
    /\ running = TRUE
    /\ task_queue = <<>>
    /\ result_queue = <<>>
    /\ bworker = [w \in WorkerIds |-> IF w = 1 THEN [IdleWorker EXCEPT !.pc = "loop"] ELSE IdleWorker]
    /\ bstop = [pc |-> "idle", w |-> 0]
    /\ grpc_client_available \in BOOLEAN
    /\ gain_values = [shoulder_gain |-> DEFAULT_SHOULDER, joint_gain |-> DEFAULT_JOINT]
    /\ rpc_log = <<>>
    /\ submitted = <<>>
    /\ polled = <<>>

\* BackgroundWorker.start (called by the thread that calls stop(), so not
\* while a stop() is under way)
BwStart ==
    /\ impl = Worker
    /\ bstop.pc = "idle"
    /\ ~running
    /\ BwWorkerThread < MaxStarts
    /\ running' = TRUE
    /\ bworker' = [bworker EXCEPT ![BwWorkerThread + 1].pc = "loop"]
    /\ UNCHANGED << dataVars, startVars, ioVars, streamVars, managerVars, task_queue, result_queue, bstop,
                    grpc_client_available, gain_values, rpc_log, submitted, polled >>

\* BackgroundWorker.stop: self.running = False, then join(timeout=2.0) if a
\* thread was ever started
BwStopBegin ==
    /\ impl = Worker
    /\ bstop.pc = "idle"
    /\ running' = FALSE
    /\ bstop' = IF BwWorkerThread = 0 THEN bstop ELSE [pc |-> "join", w |-> BwWorkerThread]
    /\ UNCHANGED << dataVars, startVars, ioVars, streamVars, managerVars, task_queue, result_queue, bworker,
                    grpc_client_available, gain_values, rpc_log, submitted, polled >>

\* stop: join() returns because the thread has ended
BwStopJoin ==
    /\ bstop.pc = "join"
    /\ ~BwIsAlive(bstop.w)
    /\ bstop' = [pc |-> "idle", w |-> 0]
    /\ UNCHANGED << dataVars, startVars, ioVars, streamVars, managerVars, running, task_queue, result_queue,
                    bworker, grpc_client_available, gain_values, rpc_log, submitted, polled >>

\* stop: join(timeout=2.0) gives up; the thread is inside a client call, whose
\* channel wait and RPC deadline (5 s + 3 s or 5 s) outlast the join, or it
\* waits for the data manager's lock
BwStopJoinTimeout ==
    /\ bstop.pc = "join"
    /\ \/ bworker[bstop.w].pc = "rpc"
       \/ bworker[bstop.w].pc = "lock" /\ dm_lock # 0
    /\ bstop' = [pc |-> "idle", w |-> 0]
    /\ UNCHANGED << dataVars, startVars, ioVars, streamVars, managerVars, running, task_queue, result_queue,
                    bworker, grpc_client_available, gain_values, rpc_log, submitted, polled >>

\* BackgroundWorker.submit_task: the id is the type and the millisecond
\* clock; put_nowait on the unbounded queue never fails.  The clock moves on
\* by dt between two submissions.  n (the submission number) and entered
\* (what the user typed) are kept next to the task for the properties.  The
\* time after the last submission of a run is not followed.
SubmitTask(task_type, params, entered, dt) ==
    /\ impl = Worker
    /\ Len(submitted) < MaxTasks
    /\ Len(submitted) + 1 = MaxTasks => dt = 0
    /\ LET task == [task_id |-> << task_type, clock >>, task_type |-> task_type,
                    params |-> params, n |-> Len(submitted) + 1, entered |-> entered]
       IN  /\ task_queue' = Append(task_queue, task)
           /\ submitted' = Append(submitted, task)
    /\ clock' = clock + dt
    /\ UNCHANGED << stream, rd, buf, pc, left_arm, right_arm, ts, line, latest_enc_L, latest_enc_R,
                    recorded_encoders, recording_active, stats, recent_frames,
                    complete_messages, command_history, lock, save_btn_text, ui_view, display, clearing,
                    n_intervals, startVars, ioVars, streamVars, managerVars, running, result_queue, bworker,
                    bstop, grpc_client_available, gain_values, rpc_log, polled >>

\* apply_gains_threaded: both inputs through `float(g or default)` and the
\* clamp, then submit_task(APPLY_GAINS, shoulder_gain=..., joint_gain=...)
ApplyGainsThreaded(shoulder_gain, joint_gain, dt) ==
    SubmitTask("apply_gains",
               { << "shoulder_gain", ClampGain(OrDefault(shoulder_gain, DEFAULT_SHOULDER)) >>,
                 << "joint_gain", ClampGain(OrDefault(joint_gain, DEFAULT_JOINT)) >> },
               << shoulder_gain, joint_gain >>, dt)

\* handle_clear_threaded: submit_task(SEND_CLEAR)
HandleClearThreaded(dt) == SubmitTask("send_clear", {}, <<>>, dt)

\* the angles real_time_stream.get_latest_data() holds when Save is clicked
SaveAngles == { <<1, 2>> }

\* handle_save_threaded: submit_task(SEND_SAVE, angles=angles)
HandleSaveThreaded(angles, dt) == SubmitTask("send_save", { << "angles", angles >> }, <<>>, dt)

\* the buttons that trigger handle_control_buttons_threaded
ControlButtons ==
    { "wifi-go-home-btn", "wifi-start-teleop-btn", "wifi-stop-teleop-btn",
      "wifi-delete-all-btn", "wifi-power-off-btn" }

\* the buttons clicked in one run: one whose task only sends its command, and
\* the one whose task also resets the data manager
ControlClicks == { "wifi-go-home-btn", "wifi-delete-all-btn" }

\* handle_control_buttons_threaded: the task submitted for each button
HandleControlButtonsThreaded(trigger_id, dt) ==
    CASE trigger_id = "wifi-go-home-btn" -> SubmitTask("send_homing", {}, <<>>, dt)
      [] trigger_id = "wifi-start-teleop-btn" ->
            SubmitTask("send_teleop", { << "command", "START" >> }, <<>>, dt)
      [] trigger_id = "wifi-stop-teleop-btn" ->
            SubmitTask("send_teleop", { << "command", "STOP" >> }, <<>>, dt)
      [] trigger_id = "wifi-delete-all-btn" ->
            SubmitTask("send_delete", { << "command", "DELETE_ALL" >> }, <<>>, dt)
      [] trigger_id = "wifi-power-off-btn" -> SubmitTask("send_power_off", {}, <<>>, dt)

\* get_result: result_queue.get_nowait() (get_all_results repeats it until
\* the queue is empty)
GetResult ==
    /\ impl = Worker
    /\ result_queue # <<>>
    /\ polled' = Append(polled, Head(result_queue))
    /\ result_queue' = Tail(result_queue)
    /\ UNCHANGED << dataVars, startVars, ioVars, streamVars, managerVars, running, task_queue, bworker, bstop,
                    grpc_client_available, gain_values, rpc_log, submitted >>

\* _worker_loop: `while self.running:`
BwLoopCheck(w) ==
    /\ bworker[w].pc = "loop"
    /\ bworker' = [bworker EXCEPT ![w].pc = IF running THEN "get" ELSE "exited"]
    /\ UNCHANGED << dataVars, startVars, ioVars, streamVars, managerVars, running, task_queue, result_queue,
                    bstop, grpc_client_available, gain_values, rpc_log, submitted, polled >>

\* _worker_loop: task_queue.get(timeout=0.5) raises queue.Empty; continue
BwGetEmpty(w) ==
    /\ bworker[w].pc = "get"
    /\ task_queue = <<>>
    /\ bworker' = [bworker EXCEPT ![w].pc = "loop"]
    /\ UNCHANGED << dataVars, startVars, ioVars, streamVars, managerVars, running, task_queue, result_queue,
                    bstop, grpc_client_available, gain_values, rpc_log, submitted, polled >>

\* _worker_loop: get() returns the oldest task
BwGet(w) ==
    /\ bworker[w].pc = "get"
    /\ task_queue # <<>>
    /\ task_queue' = Tail(task_queue)
    /\ bworker' = [bworker EXCEPT ![w].pc = "exec", ![w].task = << Head(task_queue) >>]
    /\ UNCHANGED << dataVars, startVars, ioVars, streamVars, managerVars, running, result_queue, bstop,
                    grpc_client_available, gain_values, rpc_log, submitted, polled >>

\* TaskResult(task_id, success, result, error); n and outcome are kept next to
\* it to tell which submission it answers and how the client call ended
TaskResult(task, success, result, error, outcome) ==
    [task_id |-> task.task_id, success |-> success, result |-> result, error |-> error,
     n |-> task.n, outcome |-> outcome]

\* _execute_task: `if not GRPC_CLIENT_AVAILABLE:` returns the failure result
ExecuteTaskNoClient(w) ==
    /\ bworker[w].pc = "exec"
    /\ ~grpc_client_available
    /\ bworker' = [bworker EXCEPT ![w].pc = "put",
                      ![w].result = << TaskResult(bworker[w].task[1], FALSE, "", "no gRPC client module", "no_client") >>]
    /\ UNCHANGED << dataVars, startVars, ioVars, streamVars, managerVars, running, task_queue, result_queue,
                    bstop, grpc_client_available, gain_values, rpc_log, submitted, polled >>

\* _execute_task: the thread enters the client function of the task's type
\* and stays there until the call returns
ExecuteTaskCall(w) ==
    /\ bworker[w].pc = "exec"
    /\ grpc_client_available
    /\ bworker' = [bworker EXCEPT ![w].pc = "rpc"]
    /\ UNCHANGED << dataVars, startVars, ioVars, streamVars, managerVars, running, task_queue, result_queue,
                    bstop, grpc_client_available, gain_values, rpc_log, submitted, polled >>

\* how a client call can end: the RPC answered, create_grpc_channel returned
\* no channel, or the stub raised grpc.RpcError (a passed deadline is an
\* RpcError with code DEADLINE_EXCEEDED)
Outcomes == { "ok", "no_channel", "rpc_error" }
FailedOutcomes == Outcomes \ { "ok" }

\* the RPC the client function of a task type calls
RpcOf(task_type) ==
    CASE task_type = "apply_gains" -> "GravityCompGain"
      [] task_type = "send_save" -> "Save"
      [] task_type = "send_clear" -> "Delete"
      [] task_type = "send_homing" -> "Homing"
      [] task_type = "send_teleop" -> "Teleoperation1"
      [] task_type = "send_delete" -> "Delete"
      [] task_type = "send_power_off" -> "PowerOff"

\* the command _execute_task passes to the client function
CommandOf(task) ==
    CASE task.task_type = "apply_gains" -> ""
      [] task.task_type = "send_save" -> "SAVE"
      [] task.task_type = "send_clear" -> "CLEAR_POSES"
      [] task.task_type = "send_homing" -> "GO_HOME"
      [] task.task_type = "send_teleop" -> ParamGet(task.params, "command", "START")
      [] task.task_type = "send_delete" -> ParamGet(task.params, "command", "DELETE_ALL")
      [] task.task_type = "send_power_off" -> "POWER_OFF"

\* the string a client function returns for each outcome, the Korean words
\* of the source written in ASCII (실패 "failed", 성공 "ok"): the failure to
\* connect with create_grpc_channel's status, the RPC error with the name of
\* the RPC, the code and the details, or the success text, which ends with
\* the command (Delete), a fixed word (Save) or the reply's message
ClientReturn(task, outcome) ==
    IF outcome = "no_channel" THEN "connect failed: channel creation failed"
    ELSE IF outcome = "rpc_error"
         THEN RpcOf(task.task_type) \o " RPC failed: DEADLINE_EXCEEDED - Deadline Exceeded"
    ELSE CASE task.task_type = "apply_gains" -> "torque gain set ok: message"
           [] task.task_type = "send_save" -> "Save ok: saved"
           [] task.task_type \in { "send_clear", "send_delete" } -> "Delete ok: " \o CommandOf(task)
           [] OTHER -> RpcOf(task.task_type) \o " ok: message"

\* the request the client function puts on the wire: the gains
\* (send_gravity_comp_gain clamps once more), the command, and for Save the
\* angles streamed between SAVE_START and SAVE_STOP
Request(task) ==
    [rpc |-> RpcOf(task.task_type), n |-> task.n,
     shoulder_gain |-> IF task.task_type = "apply_gains"
                       THEN ClampGain(Param(task.params, "shoulder_gain")) ELSE 0,
     joint_gain |-> IF task.task_type = "apply_gains"
                    THEN ClampGain(Param(task.params, "joint_gain")) ELSE 0,
     command |-> CommandOf(task),
     angles |-> IF task.task_type = "send_save"
                THEN ParamGet(task.params, "angles", <<>>) ELSE <<>>]

\* the success flag _execute_task gives to what the client call returned
SuccessOf(outcome) == TRUE

\* the owner a BackgroundWorker thread writes into the data manager's lock
WorkerOwner(w) == 10 + w

\* the tasks after whose client call _execute_task calls into the data
\* manager: update_gain_values, clear_poses, and reset_all_data for DELETE_ALL
UpdatesManager(task) ==
    \/ task.task_type \in { "apply_gains", "send_clear" }
    \/ task.task_type = "send_delete" /\ CommandOf(task) = "DELETE_ALL"

\* return TaskResult(task_id=task.task_id, success=True, result=result)
ExecuteTaskResult(task, outcome) ==
    TaskResult(task, SuccessOf(outcome), ClientReturn(task, outcome), "", outcome)

\* _execute_task: the client call has put its request on the wire (unless
\* there was no channel) and returns its string; the tasks that do not touch
\* the data manager have their TaskResult
ExecuteTaskReturn(w, outcome) ==
    /\ bworker[w].pc = "rpc"
    /\ rpc_log' = IF outcome = "no_channel" THEN rpc_log
                  ELSE Append(rpc_log, Request(bworker[w].task[1]))
    /\ bworker' =
          IF UpdatesManager(bworker[w].task[1])
          THEN [bworker EXCEPT ![w].pc = "lock", ![w].reply = << outcome >>]
          ELSE [bworker EXCEPT ![w].pc = "put", ![w].reply = << outcome >>,
                                ![w].result = << ExecuteTaskResult(bworker[w].task[1], outcome) >>]
    /\ UNCHANGED << dataVars, startVars, ioVars, streamVars, managerVars, running, task_queue, result_queue,
                    bstop, grpc_client_available, gain_values, submitted, polled >>

\* _execute_task: grpc_data_manager.update_gain_values(...) after the gain
\* call, clear_poses() after the clear call, reset_all_data() after
\* DELETE_ALL, whatever the client returned: `with self.lock:` is entered
\* once nobody is inside
ExecuteTaskLock(w) ==
    /\ bworker[w].pc = "lock"
    /\ dm_lock = 0
    /\ dm_lock' = WorkerOwner(w)
    /\ bworker' = [bworker EXCEPT ![w].pc = "update"]
    /\ UNCHANGED << dataVars, startVars, ioVars, streamVars, robot_state, is_recording, encoder_data, grpc_logs, pose_data, callers, invoked, running, task_queue,
                    result_queue, bstop, grpc_client_available, gain_values, rpc_log, submitted,
                    polled >>

\* update_gain_values / clear_poses / reset_all_data inside the lock, which
\* is left again; then TaskResult(success=True, result=result)
ExecuteTaskUpdate(w) ==
    /\ bworker[w].pc = "update"
    /\ LET task == bworker[w].task[1]
           outcome == bworker[w].reply[1]
       IN  /\ gain_values' = IF task.task_type = "apply_gains"
                             THEN [shoulder_gain |-> Param(task.params, "shoulder_gain"),
                                   joint_gain |-> Param(task.params, "joint_gain")]
                             ELSE gain_values
           /\ pose_data' = IF task.task_type \in { "send_clear", "send_delete" } THEN <<>> ELSE pose_data
           /\ encoder_data' = IF task.task_type = "send_delete" THEN <<>> ELSE encoder_data
           /\ grpc_logs' = IF task.task_type = "send_delete" THEN <<>> ELSE grpc_logs
           /\ bworker' = [bworker EXCEPT ![w].pc = "put",
                             ![w].result = << ExecuteTaskResult(task, outcome) >>]
    /\ dm_lock' = 0
    /\ UNCHANGED << dataVars, startVars, ioVars, streamVars, robot_state, is_recording,
                    callers, invoked, running, task_queue, result_queue, bstop,
                    grpc_client_available, rpc_log, submitted, polled >>

\* reset_gains_to_default: grpc_data_manager.reset_gain_to_default() sets the
\* gain values back to 0.6 and 0.7 inside the lock
ResetGainsToDefault ==
    /\ impl = Worker
    /\ dm_lock = 0
    /\ gain_values' = [shoulder_gain |-> DEFAULT_SHOULDER, joint_gain |-> DEFAULT_JOINT]
    /\ UNCHANGED << dataVars, startVars, ioVars, streamVars, managerVars, running, task_queue, result_queue,
                    bworker, bstop, grpc_client_available, rpc_log, submitted, polled >>

\* _worker_loop: self.result_queue.put(result)
BwPutResult(w) ==
    /\ bworker[w].pc = "put"
    /\ result_queue' = Append(result_queue, bworker[w].result[1])
    /\ bworker' = [bworker EXCEPT ![w] = [IdleWorker EXCEPT !.pc = "loop"]]
    /\ UNCHANGED << dataVars, startVars, ioVars, streamVars, managerVars, running, task_queue, bstop,
                    grpc_client_available, gain_values, rpc_log, submitted, polled >>

BwStopStep ==
    \/ BwStopJoin
    \/ BwStopJoinTimeout

BwThreadStep(w) ==
    \/ BwLoopCheck(w)
    \/ BwGetEmpty(w)
    \/ BwGet(w)
    \/ ExecuteTaskNoClient(w)
    \/ ExecuteTaskCall(w)
    \/ \E outcome \in Outcomes : ExecuteTaskReturn(w, outcome)
    \/ ExecuteTaskLock(w)
    \/ ExecuteTaskUpdate(w)
    \/ BwPutResult(w)

NextWorker ==
    \/ \E g \in GainClicks : \E dt \in {0, 1} : ApplyGainsThreaded(g[1], g[2], dt)
    \/ \E dt \in {0, 1} : HandleClearThreaded(dt)
    \/ \E angles \in SaveAngles : \E dt \in {0, 1} : HandleSaveThreaded(angles, dt)
    \/ \E trigger_id \in ControlClicks : \E dt \in {0, 1} : HandleControlButtonsThreaded(trigger_id, dt)
    \/ GetResult
    \/ ResetGainsToDefault
    \/ SavePoseStep
    \/ BwStart
    \/ BwStopBegin
    \/ BwStopStep
    \/ \E w \in WorkerIds : BwThreadStep(w)

InitWorker ==
    /\ InitReaderIdle
    /\ InitWorkerObject

SpecWorker == InitWorker /\ [][NextWorker]_vars

\* the two writers of gain_values side by side: the BackgroundWorker applying
\* gains, and the gRPC server thread serving a GravityCompGain request
NextGain ==
    \/ \E g \in GainClicks : \E dt \in {0, 1} : ApplyGainsThreaded(g[1], g[2], dt)
    \/ GetResult
    \/ \E w \in WorkerIds : BwThreadStep(w)
    \/ GravityStep
    \/ WithLock(1)
    \/ ExitLock(1)

SpecGain == InitWorker /\ [][NextGain]_vars

(* ---------------------------------------------------------------------- *)
(* Properties of the frame reader                                          *)
(* ---------------------------------------------------------------------- *)
\* the wire format's checksum rule for a 61-byte window b (1-based b[3..59]
\* are bytes 2..58, b[60..61] the little-endian uint16)
ChecksumLaw(b) == SumBytes(SubSeq(b, 3, 59)) % 65536 = b[60] + 256 * b[61]

\* the reader has consumed the whole stream and is back at the top of its loop
Drained == rd = Len(stream) /\ pc = "read"

\* the k-th little-endian uint32 (k = 0..13) of the payload of window b
PayloadValue(b, k) ==
    b[4 + 4 * k] + 256 * b[5 + 4 * k] + 65536 * b[6 + 4 * k] + 16777216 * b[7 + 4 * k]

\* the left and right halves of a transmitted payload v
LeftHalf(v) == SubSeq(v, 1, 7)
RightHalf(v) == SubSeq(v, 8, 14)

\* some decoded frame on display carries exactly payload v
Shown(v) ==
    \E k \in 1..Len(recent_frames) :
        recent_frames[k].left = LeftHalf(v) /\ recent_frames[k].right = RightHalf(v)

\* C1: a 61-byte window extracted by the reader is accepted iff the byte sum
\* of b[2..58] mod 65536 equals the little-endian uint16 in b[59..60] (and
\* read_encoder_frame decides the same window the same way); a
\* rejected window leaves latest angles, stats, recent frames and the
\* recording buffer unchanged; and once the reader is outside its publishing
\* section the accepted frame is in latest angles, stats and recent frames.
C1_ChecksumLaw ==
    /\ [][ (pc = "parse" /\ HasWindow(buf) /\ buf' # buf) =>
             /\ ChecksumLaw(Window(buf)) <=> pc' = "lock"
             /\ ChecksumLaw(Window(buf)) <=> ReadEncoderFrameAccepts(SliceFrom(Window(buf), 2))
             /\ ~ChecksumLaw(Window(buf)) => (pc' = "parse" /\ UNCHANGED published) ]_vars
    /\ [](  (pc \in {"read", "parse", "text"} /\ ts > 0) =>
             /\ latest_enc_L = left_arm
             /\ latest_enc_R = right_arm
             /\ stats.last_ts = ts
             /\ recent_frames # <<>>
             /\ recent_frames[Len(recent_frames)] = [ts |-> ts, right |-> right_arm, left |-> left_arm] )

\* C1 witness: a corrupted frame was rejected and the valid frame behind it accepted
C1_Witness ==
    /\ stream = StreamBadGood
    /\ Drained
    /\ Len(recent_frames) = 1
    /\ Shown(PayloadB)

\* C2 (as claimed): on a checksum failure only the bytes up to and including
\* the 2-byte header are removed from the buffer.
C2_OnlyHeaderDiscarded ==
    [][ (pc = "parse" /\ HasWindow(buf) /\ ~ChecksumLaw(Window(buf)) /\ buf' # buf) =>
          buf' = SliceFrom(buf, HdrIndex(buf) + 2) ]_vars

\* C3 (as claimed): AA BB directly followed by a valid frame still yields the
\* valid frame.
C3_FalseHeaderTolerated ==
    (stream = StreamFalseHeader /\ Drained) => Shown(PayloadA)

\* C4 (as claimed): a corrupted frame directly followed by a valid frame still
\* yields the valid frame.
C4_Resynchronises ==
    /\ (stream = StreamBadGood /\ Drained) => Shown(PayloadB)
    /\ (stream = StreamBadGoodNL /\ Drained) => Shown(PayloadNL)

\* the stream that is exactly one valid frame whose payload contains 0x0A
StreamOneFrameNL == FrameNL

\* C5 (as claimed): a partial frame (header plus fewer than 61 bytes) is left
\* in the buffer by a reader pass and decoded intact once the rest arrives.
C5_PartialFrameKept ==
    (stream = StreamOneFrameNL /\ Drained) => Shown(PayloadNL)

\* C6 (as claimed): a keyword line outside any frame window reaches the
\* status-message log, also directly in front of a complete frame.
C6_StatusLineLogged ==
    (stream = StreamTextThenFrame /\ Drained) =>
        \E k \in 1..Len(complete_messages) : complete_messages[k].message = KW_MOVING

\* C7: what is published for a valid frame is its payload split in two: each
\* accepted window's first seven little-endian uint32 become the left arm and
\* the last seven the right arm (read_encoder_frame splits the same window the
\* same way); the latest angles are changed only by the reader publishing
\* those two halves, and every sample added to the recording buffer and every
\* line added to the recent frames carries the same two halves.
C7_LeftRightSplit ==
    /\ [][ (pc = "parse" /\ pc' = "lock") =>
             /\ left_arm' = [k \in 1..7 |-> PayloadValue(Window(buf), k - 1)]
             /\ right_arm' = [k \in 1..7 |-> PayloadValue(Window(buf), k + 6)]
             /\ ReadEncoderFrameResult(SliceFrom(Window(buf), 2)).left_arm = left_arm'
             /\ ReadEncoderFrameResult(SliceFrom(Window(buf), 2)).right_arm = right_arm' ]_vars
    /\ [][ (pc \in {"lock", "setR", "rec", "stats", "recent"}) =>
             UNCHANGED << left_arm, right_arm >> ]_vars
    /\ [][ (latest_enc_L' # latest_enc_L) => latest_enc_L' = left_arm ]_vars
    /\ [][ (latest_enc_R' # latest_enc_R) => latest_enc_R' = right_arm ]_vars
    /\ [][ (pc = "rec" /\ pc' # pc) =>
             latest_enc_L = left_arm /\ latest_enc_R = right_arm ]_vars
    /\ [][ (Len(recorded_encoders') > Len(recorded_encoders)) =>
             /\ recorded_encoders'[Len(recorded_encoders')].left_arm = latest_enc_L
             /\ recorded_encoders'[Len(recorded_encoders')].right_arm = latest_enc_R ]_vars
    /\ [][ (recent_frames' # recent_frames /\ recent_frames' # <<>>) =>
             /\ recent_frames'[Len(recent_frames')].left = latest_enc_L
             /\ recent_frames'[Len(recent_frames')].right = latest_enc_R ]_vars
    /\ []( (pc \in {"read", "parse", "text"} /\ ts > 0 /\ recent_frames # <<>>) =>
             /\ recent_frames[Len(recent_frames)].left = latest_enc_L
             /\ recent_frames[Len(recent_frames)].right = latest_enc_R )

\* C7 witness: a frame with multi-byte values is in the latest angles and in
\* the recording buffer
C7_Witness ==
    /\ latest_enc_L = LeftHalf(PayloadB)
    /\ latest_enc_R = RightHalf(PayloadB)
    /\ recorded_encoders # <<>>
    /\ recorded_encoders[Len(recorded_encoders)].left_arm = LeftHalf(PayloadB)
    /\ recorded_encoders[Len(recorded_encoders)].right_arm = RightHalf(PayloadB)

\* the reader at its `with lock:` block (lines 322-332) with a decoded frame:
\* it enters the block once the lock is free, and goes through it
PublishStep ==
    \/ SetLatestL
    \/ SetLatestR
    \/ RecordSample

\* the reader on two good frames next to the Recording/Stop and Clear
\* buttons; the reader thread is scheduled whenever it can go on with its
\* `with lock:` block
NextGate ==
    \/ ReadChunk(FRAME_LEN)
    \/ ParseBreak
    \/ ParseGoodFrame
    \/ PublishStep
    \/ UpdateStats
    \/ AppendRecent
    \/ TextBreak
    \/ UiStep

SpecGate ==
    /\ InitRunningOn(StreamIoTwo)
    /\ [][NextGate]_vars
    /\ WF_vars(PublishStep)

\* the timestamps the frames of that run can get: ts = time.time() is taken
\* once per accepted frame
FrameStamps == 1..(Len(StreamIoTwo) \div FRAME_LEN)

\* the frame decoded at time t is in the recording buffer
InBuffer(t) == \E k \in 1..Len(recorded_encoders) : recorded_encoders[k].timestamp = t

\* C8 (as claimed): a decoded frame is appended to the recording buffer
\* exactly when recording_active is true at the moment the frame is decoded,
\* and toggling the flag afterwards never adds it.  So, for the frame that
\* gets timestamp t: when recording is off at some moment before the frame is
\* decoded (ts < t) and is not switched on again before it is decoded, the
\* frame is decoded with recording off and is never in the buffer.
C8_ActiveAtDecode ==
    \A t \in FrameStamps :
        []( (ts < t /\ ~recording_active) =>
               ( [](~InBuffer(t)) \/ <>(ts < t /\ recording_active) ) )

\* the serial reader loops that are running
RunningLoops == { t \in ThreadIds : serial_thr[t] \in { "running", "caught" } }

\* C9 (as claimed): at every moment at most one serial reader loop is running.
C9_SingleReaderLoop == Cardinality(RunningLoops) <= 1

\* a displayed or stored pair of arms comes from one transmitted frame
OneFrame(l, r) == \E v \in Payloads : l = LeftHalf(v) /\ r = RightHalf(v)

\* C10: nothing a reader can obtain pairs the left arm of one frame with the
\* right arm of another: each entry the display callback rendered, each
\* recorded sample, each recent frame, and the latest angles whenever the
\* lock is free, hold both arms of one frame.
C10_NoTornPair ==
    /\ \A k \in 1..Len(ui_view) :
          ui_view[k] = DeviceOffHeader \/ OneFrame(ui_view[k].left, ui_view[k].right)
    /\ \A k \in 1..Len(recorded_encoders) :
          OneFrame(recorded_encoders[k].left_arm, recorded_encoders[k].right_arm)
    /\ \A k \in 1..Len(recent_frames) : OneFrame(recent_frames[k].left, recent_frames[k].right)
    /\ lock = "free" => (OneFrame(latest_enc_L, latest_enc_R) \/ (latest_enc_L = Zeros /\ latest_enc_R = Zeros))

\* C10 witness: the display callback ran while the reader was between its two
\* assignments for a second frame, and rendered the first frame
C10_Witness ==
    /\ pc = "setR"
    /\ latest_enc_L # Zeros
    /\ latest_enc_R # Zeros
    /\ ~OneFrame(latest_enc_L, latest_enc_R)
    /\ ui_view # <<>>

(* ---------------------------------------------------------------------- *)
(* Properties of the lock and of the serial handle                         *)
(* ---------------------------------------------------------------------- *)
\* C11 (as claimed): no file or serial I/O happens inside a critical section
\* of `lock`: a step that writes the CSV file is never taken by the holder of
\* the lock, and the reader is never waiting at its `with lock:` while the
\* holder is busy with the file.
C11_NoIoUnderLock ==
    /\ [][ csv_file' # csv_file => (lock = "free" /\ lock' = "free") ]_vars
    /\ []( (pc = "lock" /\ lock = "ui") => export.pc = "idle" )

\* C12 (as claimed): a command is written to the serial handle only by a
\* caller that holds `lock`, and the reader never reads the handle between a
\* command's write() and its flush().
C12_WriteUnderLock ==
    /\ [][ ser_out' # ser_out => lock' = "ui" ]_vars
    /\ [][ rd' # rd => cmd.pc # "flush" ]_vars

(* ---------------------------------------------------------------------- *)
(* Properties of the queue-based stream worker                             *)
(* ---------------------------------------------------------------------- *)
\* the elements of a sequence
Range(q) == { q[k] : k \in 1..Len(q) }

\* the samples callback c was called with, in call order
DeliveredTo(c) ==
    LET d == SelectSeq(delivered, LAMBDA x : x.cb = c)
    IN  [k \in 1..Len(d) |-> d[k].sample]

StrictlyIncreasing(q) == \A i, j \in 1..Len(q) : i < j => q[i] < q[j]

\* the position at which callback c was registered
RegisteredAt(c) == CHOOSE k \in 1..Len(callbacks) : callbacks[k] = c

\* no consumer is inside a sample and none will take one: the queue is empty,
\* or no consumer thread is alive
Settled ==
    /\ \A w \in WorkerIds : hworker[w].pc \notin { "got", "locked", "cb" }
    /\ data_queue = <<>> \/ \A w \in WorkerIds : ~IsAlive(w)

\* C13 (as claimed): every callback is called with the accepted samples in
\* submission order and at most once each; for one sample the callbacks are
\* called in registration order; and once a running worker has nothing left
\* to do, every accepted sample has been given to every registered callback.
C13_SubmissionOrder ==
    /\ \A c \in CallbackIds : StrictlyIncreasing(DeliveredTo(c))
    /\ \A k \in 1..Len(delivered) : delivered[k].sample \in Range(accepted)
    /\ \A i, j \in 1..Len(delivered) :
          (i < j /\ delivered[i].sample = delivered[j].sample) =>
              RegisteredAt(delivered[i].cb) < RegisteredAt(delivered[j].cb)
    /\ (is_running /\ Settled) =>
          \A c \in Range(callbacks) : \A x \in Range(accepted) : x \in Range(DeliveredTo(c))

\* the sample a put_nowait of this step is made with: that of the add_sample
\* call which has reached its put, or the one add_stream_sample is called with
Putting ==
    IF producer.pc = "put" /\ producer' # producer THEN << producer.sample >>
    ELSE IF impl = Manager /\ next_seq' # next_seq THEN << next_seq >>
    ELSE <<>>

\* C14 (as claimed): a put never waits for room; on a full queue of a running
\* worker the queue is left as it is, the call returns False and the drop
\* counter goes up by one; the drop counter never goes down.
C14_DropNotBlock ==
    /\ [][ (Putting # <<>> /\ is_running /\ Len(data_queue) >= MaxQueueSize) =>
             /\ data_queue' = data_queue
             /\ add_ret' = [sample |-> Putting[1], ret |-> FALSE]
             /\ hstats'.dropped_samples = hstats.dropped_samples + 1 ]_vars
    /\ [][ hstats'.dropped_samples >= hstats.dropped_samples ]_vars

\* the calls made for sample x, as callback ids in call order
CalledFor(x) ==
    LET d == SelectSeq(delivered, LAMBDA y : y.sample = x)
    IN  [k \in 1..Len(d) |-> d[k].cb]

\* C15: a consumer that is inside the callbacks of a sample goes on to the
\* next callback of its copy after every call, raised or not, and back to the
\* top of its loop after the last one; it ends only at the top of the loop
\* (flag or sentinel), never inside a sample; so every sample a consumer has
\* finished was given to every registered callback.
C15_CallbackExceptionContained ==
    /\ [][ \A w \in WorkerIds :
             (hworker[w].pc = "cb" /\ hworker'[w] # hworker[w]) =>
                 IF hworker[w].todo # <<>>
                 THEN /\ hworker'[w].pc = "cb"
                      /\ hworker'[w].sample = hworker[w].sample
                      /\ hworker'[w].todo = Tail(hworker[w].todo)
                      /\ delivered' = Append(delivered, [cb |-> Head(hworker[w].todo),
                                                         sample |-> hworker[w].sample, w |-> w])
                 ELSE hworker'[w].pc = "loop" ]_vars
    /\ []( \A x \in Range(accepted) :
             (CalledFor(x) # <<>> /\ \A w \in WorkerIds : hworker[w].sample # x) =>
                 CalledFor(x) = callbacks )

\* C15 witness: the first registered callback raised on a sample, the second
\* was called all the same, and an earlier sample raised nothing
C15_Witness ==
    \E w \in WorkerIds :
        /\ hworker[w].pc = "cb"
        /\ hworker[w].todo = <<>>
        /\ Len(callbacks) = 2
        /\ hworker[w].raised = { callbacks[1] }
        /\ CalledFor(hworker[w].sample) = callbacks
        /\ Len(delivered) > 2

\* one of the three queue-based workers, as it is after construction /
\* import
InitStop ==
    /\ InitReaderIdle
    /\ \/ InitStreamObject /\ InitWorkerIdle
       \/ InitWorkerObject

\* the three workers with their callers; the tasks given to the
\* BackgroundWorker are clear tasks
NextStop ==
    \/ NextStream
    \/ HandleClearThreaded(0)
    \/ impl = Worker /\ DataStep
    \/ BwStart
    \/ BwStopBegin
    \/ BwStopStep
    \/ \E w \in WorkerIds : BwThreadStep(w)

\* threads get scheduled, callbacks and client calls return: a consumer
\* thread that can take a step takes one, and so does a stop() / cleanup()
\* call that has begun
SpecStopLive ==
    /\ InitStop
    /\ [][NextStop]_vars
    /\ WF_vars(StopStep)
    /\ WF_vars(BwStopStep)
    /\ WF_vars(DataStep)
    /\ \A w \in WorkerIds : WF_vars(ConsumerStep(w)) /\ WF_vars(BwThreadStep(w))

\* C16 (as claimed): once stop() / cleanup() has cleared the running flag,
\* every consumer thread of that worker ends (whatever the queue held),
\* unless start() sets the flag again first; a stop() / cleanup() call that
\* has begun returns; and a join() that returned without timing out leaves
\* the joined thread ended.
C16_StopTerminates ==
    /\ (~is_running) ~> (is_running \/ \A w \in WorkerIds : ~IsAlive(w))
    /\ (hstop.pc # "idle") ~> (hstop.pc = "idle")
    /\ (~running) ~> (running \/ \A w \in WorkerIds : ~BwIsAlive(w))
    /\ (bstop.pc # "idle") ~> (bstop.pc = "idle")
    /\ [][ (hstop.pc = "join" /\ hstop'.pc = "idle" /\ hworker[hstop.w].pc \notin { "got", "cb" }) =>
               ~IsAlive(hstop.w) ]_vars
    /\ [][ (bstop.pc = "join" /\ bstop'.pc = "idle" /\ bworker[bstop.w].pc \notin { "rpc", "lock" }) =>
               ~BwIsAlive(bstop.w) ]_vars

(* ---------------------------------------------------------------------- *)
(* Properties of the background worker                                     *)
(* ---------------------------------------------------------------------- *)
\* the threads that are inside a client call
InFlight == { w \in WorkerIds : bworker[w].pc = "rpc" }

\* every TaskResult produced so far, in the order they were put on the
\* result queue
Results == polled \o result_queue

HasResult(n) == \E k \in 1..Len(Results) : Results[k].n = n

\* C17 (as claimed): at most one client call is in flight; the call for a
\* task starts only when every earlier submission has its result on the
\* result queue; and the results were put in submission order.
C17_FifoOneInFlight ==
    /\ [](Cardinality(InFlight) <= 1)
    /\ [][ \A w \in WorkerIds :
             (bworker[w].pc # "rpc" /\ bworker'[w].pc = "rpc") =>
                 \A m \in 1..(bworker[w].task[1].n - 1) : HasResult(m) ]_vars
    /\ [](StrictlyIncreasing([k \in 1..Len(Results) |-> Results[k].n]))

\* C18 (as claimed): the TaskResult of a task whose client call failed (no
\* channel, RPC error or passed deadline) has success = False and a non-empty
\* error text.
C18_FailedRpcReported ==
    \A k \in 1..Len(Results) :
        Results[k].outcome \in FailedOutcomes =>
            (Results[k].success = FALSE /\ Results[k].error # "")

\* threads get scheduled and client calls return: a worker thread that can
\* take a step takes one, and so does a stop() call that has begun
SpecWorkerLive ==
    /\ InitWorker
    /\ [][NextWorker]_vars
    /\ WF_vars(BwStopStep)
    /\ WF_vars(SavePoseStep)
    /\ \A w \in WorkerIds : WF_vars(BwThreadStep(w))

\* C19 (as claimed): every accepted task gets a TaskResult in the end, no
\* task gets two, and no TaskResult is handed to the poller twice.
C19_ExactlyOneResult ==
    /\ \A n \in 1..MaxTasks : (Len(submitted) >= n) ~> HasResult(n)
    /\ [](\A i, j \in 1..Len(Results) : Results[i].n = Results[j].n => i = j)
    /\ [](\A k \in 1..Len(Results) : Results[k].n \in 1..Len(submitted))

\* min(1.0, max(0.2, g)) in hundredths
ClaimedGain(g) == IF g < GAIN_MIN THEN GAIN_MIN ELSE IF g > GAIN_MAX THEN GAIN_MAX ELSE g

\* C20 (as claimed): for every number typed into a gain field, the apply_gains
\* task carries min(1.0, max(0.2, g)) of it and so does the GravityCompGain
\* request; nothing outside [0.2, 1.0] is dispatched.
C20_GainsClamped ==
    /\ \A k \in 1..Len(submitted) :
          submitted[k].task_type = "apply_gains" =>
              /\ submitted[k].entered[1] # <<>> =>
                    Param(submitted[k].params, "shoulder_gain") = ClaimedGain(submitted[k].entered[1][1])
              /\ submitted[k].entered[2] # <<>> =>
                    Param(submitted[k].params, "joint_gain") = ClaimedGain(submitted[k].entered[2][1])
    /\ \A k \in 1..Len(rpc_log) :
          rpc_log[k].rpc = "GravityCompGain" =>
              /\ rpc_log[k].shoulder_gain \in GAIN_MIN..GAIN_MAX
              /\ rpc_log[k].joint_gain \in GAIN_MIN..GAIN_MAX
              /\ submitted[rpc_log[k].n].entered[1] # <<>> =>
                    rpc_log[k].shoulder_gain = ClaimedGain(submitted[rpc_log[k].n].entered[1][1])
              /\ submitted[rpc_log[k].n].entered[2] # <<>> =>
                    rpc_log[k].joint_gain = ClaimedGain(submitted[rpc_log[k].n].entered[2][1])

(* ---------------------------------------------------------------------- *)
(* GRPCDataManager: the specification of its locked operations            *)
(* ---------------------------------------------------------------------- *)
NextManager ==
    \E t \in ManagerThreads :
        \/ \E call \in ManagerCalls : Invoke(t, call)
        \/ WithLock(t)
        \/ ExitLock(t)
        \/ ConnectClient(t)
        \/ DisconnectClient(t)
        \/ AddGrpcEntry(t)
        \/ StartRecording(t)
        \/ StopRecording(t)
        \/ SaveEncoderPose(t)
        \/ UpdateEncoderData(t)
        \/ UpdateRobotState(t)
        \/ ClearPoses(t)
        \/ ResetAllData(t)
        \/ LogRequest(t)
        \/ PowerOff(t)
        \/ PowerOffLog(t)
        \/ PowerOffReply(t)
        \/ GravityCompGain(t)
        \/ UpdateGainValues(t)
        \/ GravityCompGainReply(t)

InitManager ==
    /\ InitReaderIdle
    /\ InitStreamIdle
    /\ InitWorkerIdle

SpecManager == InitManager /\ [][NextManager]_vars

(* ---------------------------------------------------------------------- *)
(* The recording controls: the button, key '2', and the data manager       *)
(* ---------------------------------------------------------------------- *)
\* the recording calls a server thread makes into the data manager
RecordingCalls == { [fn |-> f, arg |-> ""] : f \in { "start_recording", "stop_recording" } }

\* two frames arrive while the recording is switched on and off
InitRecording == InitRunningOn(StreamIoTwo)

\* the keys pressed and released in that run: the recording toggle and the
\* clear key
RecordingKeys == { "2", "5" }

NextRecording ==
    \/ ReadChunk(FRAME_LEN)
    \/ ParseBreak
    \/ ParseGoodFrame
    \/ SetLatestL
    \/ SetLatestR
    \/ RecordSample
    \/ UpdateStats
    \/ AppendRecent
    \/ TextBreak
    \/ HandleSaveBtn
    \/ \E key \in RecordingKeys, raises \in BOOLEAN : OnKeyPress(key, raises)
    \/ SpecialKeyClear
    \/ \E raises \in BOOLEAN : OnKeyPressSend(raises)
    \/ \E key \in RecordingKeys, raises \in BOOLEAN : OnKeyRelease(key, raises)
    \/ \E call \in RecordingCalls : Invoke(1, call)
    \/ WithLock(1)
    \/ ExitLock(1)
    \/ StartRecording(1)
    \/ StopRecording(1)

SpecRecording == InitRecording /\ [][NextRecording]_vars

(* ---------------------------------------------------------------------- *)
(* A burst of status lines                                                 *)
(* ---------------------------------------------------------------------- *)
\* lines the device sends in the burst
MaxStatusLines == 48

\* the k-th line of the burst: two status lines, then one line without keyword
LineOf(k) ==
    IF k % 3 = 1 THEN TextMoving ELSE IF k % 3 = 2 THEN TextHomeComplete ELSE TextOk

StatusBurst == Concat([k \in 1..MaxStatusLines |-> LineOf(k)])

\* the sizes in_waiting reports during the burst
LogChunks == { 8, 24 }

InitLog == InitRunningOn(StatusBurst)

NextLog ==
    \/ \E n \in LogChunks : ReadChunk(n)
    \/ ParseBreak
    \/ TextBreak
    \/ TextStep
    \/ TextLog

SpecLog == InitLog /\ [][NextLog]_vars

(* ---------------------------------------------------------------------- *)
(* Properties of the CSV export                                            *)
(* ---------------------------------------------------------------------- *)
\* C21: an export that fails, at the open or at any write after it, is
\* reported as a failure by the callback, and the recording buffer then holds
\* exactly the samples the export found: no step of the export changes the
\* buffer, and nobody else changes it while the export holds the lock.
C21_ExportFailureKeepsBuffer ==
    /\ []( export.pc \in { "locked", "writing" } => recorded_encoders = export.before )
    /\ [][ (export.pc \in { "locked", "writing" } /\ export'.pc = "idle"
             /\ export'.status # "saved")
           => (export'.status = "failed" /\ recorded_encoders' = export.before) ]_vars

\* a write fails after the first of two rows: the failure is reported and both
\* samples are still in the buffer
C21_Witness ==
    /\ export.status = "failed"
    /\ export.pc = "idle"
    /\ Len(export.before) = 2
    /\ Len(csv_file) = 2
    /\ recorded_encoders = export.before

\* the joints of one arm as the columns <name>_1 .. <name>_7 of a row
Columns(name, arm) == [i \in 1..NUM_JOINTS |-> [column |-> <<name, i>>, value |-> arm[i]]]

\* a written row read back against the header of its file
ReadBack(header, row) == [k \in 1..Len(row) |-> [column |-> header[k], value |-> row[k]]]

\* C22: a finished export of N samples leaves a file of one header line and
\* exactly N data lines in buffer order; the columns are timestamp, datetime,
\* right_joint_1..7, left_joint_1..7, right_joint_i holding right_arm[i] and
\* left_joint_i holding left_arm[i] (1-based); this holds whatever the reader
\* and the clear button do while the export runs.
C22_ExportRows ==
    [][ (export.pc = "writing" /\ export'.status = "saved") =>
          /\ Len(csv_file') = 1 + Len(export.before)
          /\ csv_file'[1] = << <<"timestamp", 0>>, <<"datetime", 0>>,
                               <<"right_joint", 1>>, <<"right_joint", 2>>, <<"right_joint", 3>>,
                               <<"right_joint", 4>>, <<"right_joint", 5>>, <<"right_joint", 6>>,
                               <<"right_joint", 7>>,
                               <<"left_joint", 1>>, <<"left_joint", 2>>, <<"left_joint", 3>>,
                               <<"left_joint", 4>>, <<"left_joint", 5>>, <<"left_joint", 6>>,
                               <<"left_joint", 7>> >>
          /\ \A k \in 1..Len(export.before) :
                LET entry == export.before[k]
                    cells == ReadBack(csv_file'[1], csv_file'[k + 1])
                IN  /\ cells[1] = [column |-> <<"timestamp", 0>>, value |-> entry.timestamp]
                    /\ cells[2].value = DateTimeText(entry.timestamp)
                    /\ SubSeq(cells, 3, 2 + NUM_JOINTS) = Columns("right_joint", entry.right_arm)
                    /\ SubSeq(cells, 3 + NUM_JOINTS, 2 + 2 * NUM_JOINTS)
                          = Columns("left_joint", entry.left_arm) ]_vars

\* two different samples exported, while the reader is not at rest
C22_Witness ==
    /\ export.status = "saved"
    /\ Len(csv_file) = 3
    /\ Len(export.before) = 2
    /\ export.before[1] # export.before[2]
    /\ export.before[1].right_arm # export.before[1].left_arm

(* ---------------------------------------------------------------------- *)
(* Properties of the data manager's lock                                   *)
(* ---------------------------------------------------------------------- *)
\* C23 (as claimed): no thread ever arrives at a `with self.lock:` of the data
\* manager while it is itself inside the lock: connect_client,
\* disconnect_client, stop_recording and PowerOff never wait for a lock their
\* own caller holds.
C23_NoSelfReacquire ==
    \A t \in ManagerThreads :
        ~( /\ callers[t] # <<>>
           /\ Top(t).fn \in LockedOps
           /\ Top(t).pc = "enter"
           /\ dm_lock = t )

(* ---------------------------------------------------------------------- *)
(* Restart of the stream handler                                           *)
(* ---------------------------------------------------------------------- *)
\* C24 (as claimed): whenever the handler's is_running flag is set, after a
\* stop() and a start() as much as after the first start(), the consumer
\* thread it started last is alive: nothing left in the queue by the earlier
\* stop() ends the new consumer.
C24_RestartHasConsumer ==
    (impl = Handler /\ is_running) => IsAlive(WorkerThread)

(* ---------------------------------------------------------------------- *)
(* Properties of the start sequence and of the reader loop                 *)
(* ---------------------------------------------------------------------- *)
\* C25 (as claimed): when serial.Serial(...) has failed for a start sequence,
\* that sequence is over: it does not go on to set keyboard_active and to
\* start its key listener.
C25_OpenFailureAborts ==
    [][ \A t \in ThreadIds :
          (serial_thr[t] = "failed" /\ listener[t] = "sleeping") =>
              (listener'[t] \notin { "activated", "listening" }
                 /\ (keyboard_active' => keyboard_active)) ]_vars

\* the start-up threads with a scheduler that lets every reader loop that can
\* take a step take it
SpecStartLive ==
    /\ InitStart
    /\ [][NextStart]_vars
    /\ \A t \in ThreadIds : WF_vars(SerialLoopExit(t)) /\ WF_vars(SerialLoopContinue(t))

\* C26 (as claimed): once the running flag of a reader loop that is in its
\* loop has been cleared, that loop ends and the serial handle is closed, also
\* when the iteration in progress ended in an exception; and an exception
\* inside an iteration never ends the loop while the flag is set.
C26_StopObserved ==
    /\ \A t \in ThreadIds :
          (serial_thr[t] \in { "running", "caught" } /\ ~serial_thread_active)
              ~> (serial_thr[t] = "exited" /\ ~shared_ser.is_open)
    /\ [][ \A t \in ThreadIds :
             (serial_thr[t] = "caught" /\ serial_thread_active /\ serial_thread_active')
                 => serial_thr'[t] \in { "caught", "running" } ]_vars

(* ---------------------------------------------------------------------- *)
(* Properties of the device buttons                                        *)
(* ---------------------------------------------------------------------- *)
\* C27 (as claimed): whenever DEVICE_ON, DEVICE_OFF or HOME is written to the
\* serial handle, neither key '1' (right arm) nor key '4' (left arm) marks its
\* arm as gravity-compensated at that moment.
C27_NoCommandUnderGravity ==
    [][ (ser_out' # ser_out /\ ser_out'[Len(ser_out')] \in Commands)
           => ~(keyboard_state["1"] \/ keyboard_state["4"]) ]_vars

(* ---------------------------------------------------------------------- *)
(* Properties of the recording controls                                    *)
(* ---------------------------------------------------------------------- *)
\* the Recording/Stop button asks for a start or for a stop
StartClick == save_btn_text = "Recording" /\ save_btn_text' = "Stop"
StopClick == save_btn_text = "Stop" /\ save_btn_text' = "Recording"

\* key '2' is toggled on or off
KeyTwoOn == ~keyboard_state["2"] /\ keyboard_state'["2"]
KeyTwoOff == keyboard_state["2"] /\ ~keyboard_state'["2"]

\* the body of a data manager method runs in this step
Runs(t, fn) == InMethod(t, fn, "body") /\ callers'[t] # callers[t]

\* C28: a start while recording is already active, and a stop while it is
\* already inactive, leave the recording as it is: by the button, by key '2'
\* and in the data manager the recording flag keeps its value, what was
\* recorded stays as it is, and the operation ends normally.  In the data
\* manager a repeated stop leaves all of robot_state alone, and a repeated
\* start changes nothing of it but the start_time it writes again.
C28_RecordingIdempotent ==
    [][ /\ ((StartClick \/ KeyTwoOn) /\ recording_active) =>
              (recording_active' /\ recorded_encoders' = recorded_encoders)
        /\ ((StopClick \/ KeyTwoOff) /\ ~recording_active) =>
              (~recording_active' /\ recorded_encoders' = recorded_encoders)
        /\ \A t \in ManagerThreads :
              /\ (Runs(t, "start_recording") /\ is_recording) =>
                    /\ is_recording'
                    /\ robot_state'.recording.active
                    /\ robot_state' = [robot_state EXCEPT !.recording.start_time = clock]
                    /\ << encoder_data', pose_data' >> = << encoder_data, pose_data >>
                    /\ callers' = Goto(t, "exit")
              /\ (Runs(t, "stop_recording") /\ ~is_recording) =>
                    /\ ~is_recording'
                    /\ << encoder_data', pose_data', robot_state' >>
                          = << encoder_data, pose_data, robot_state >>
                    /\ callers' = Goto(t, "exit") ]_vars

\* recording was started by the button and by key '2', one after the other,
\* with a sample already recorded, and the data manager was started twice
C28_Witness ==
    /\ recording_active
    /\ save_btn_text = "Stop"
    /\ keyboard_state["2"]
    /\ recorded_encoders # <<>>
    /\ is_recording
    /\ invoked = << "start_recording", "start_recording" >>
    /\ callers[1] = <<>>

(* ---------------------------------------------------------------------- *)
(* Task identifiers of the BackgroundWorker                                *)
(* ---------------------------------------------------------------------- *)
\* C29 (as claimed): any two tasks accepted by submit_task carry different
\* task_id values, also two tasks of one type submitted within the same
\* millisecond.
C29_UniqueTaskIds ==
    \A i, j \in 1..Len(submitted) :
        i # j => submitted[i].task_id # submitted[j].task_id

(* ---------------------------------------------------------------------- *)
(* The status-message log                                                  *)
(* ---------------------------------------------------------------------- *)
\* the lines the text scan has taken off the buffer so far, by number: the
\* bytes received and no longer buffered hold one newline per line
LinesDone ==
    Cardinality({ i \in 1..(rd - Len(buf)) : stream[i] = NEWLINE })
KeywordLinesDone == SelectSeq([k \in 1..LinesDone |-> k], LAMBDA k : k % 3 # 0)

\* what the device sent as the k-th line, without its newline
MessageOf(k) == SubSeq(LineOf(k), 1, Len(LineOf(k)) - 1)

\* C30: after every step of the reader loop the status-message log holds at
\* most 30 entries, and they are the most recent keyword lines in the order
\* they arrived: beyond 30 the oldest entries are the ones dropped.
C30_LogCapped ==
    LET done == KeywordLinesDone
        kept == IF Len(done) <= 30 THEN Len(done) ELSE 30
    IN  /\ Len(complete_messages) <= 30
        /\ Len(complete_messages) = kept
        /\ \A i \in 1..kept :
              complete_messages[i].message = MessageOf(done[Len(done) - kept + i])
        /\ \A i \in 1..(kept - 1) :
              complete_messages[i].timestamp < complete_messages[i + 1].timestamp

\* 32 keyword lines were logged: the two oldest are gone
C30_Witness ==
    /\ Len(KeywordLinesDone) = 32
    /\ Len(complete_messages) = 30
    /\ complete_messages[1].message = MessageOf(4)
    /\ complete_messages[30].message = MessageOf(47)

====
